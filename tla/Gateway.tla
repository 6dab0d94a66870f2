------------------------------- MODULE Gateway -------------------------------
(***************************************************************************)
(* gateway/proxy.py: the HTTP handlers, composed with the AsyncDispatcher. *)
(* Every handler is a plain `def`: the server runs it on a thread of a     *)
(* bounded pool, and chat_completions() keeps its thread until it answers. *)
(* It logs the request, dispatches it with a timeout, logs the result and  *)
(* only then looks at the result's status.                                 *)
(*                                                                         *)
(* The gateway never closes its dispatcher, so close() takes no part here. *)
(***************************************************************************)
EXTENDS Integers, Sequences, FiniteSets, Functions

CONSTANTS
  Requests,        \* POST /v1/chat/completions calls
  Probes,          \* GET /health and GET /v1/models calls
  Names,           \* tenant and model names: an adapter is named like its tenant
  None,            \* an absent (or empty) field or header
  Body,            \* tenant, header and model given with each request
  DefaultTenant,   \* "default"
  DefaultModel,    \* cfg.default_model
  LoraTenants,     \* cfg.lora_tenants
  MaxConcurrency,  \* cfg.max_concurrency
  PoolThreads,     \* the size of the server's thread pool
  Unwritable       \* the requests for which writing the log file may raise

ASSUME GatewayAssumption ==
  /\ IsFiniteSet(Requests) /\ Requests \cap Probes = {}
  /\ None \notin Names \cup Requests
  /\ Body \in [Requests -> [tenant : Names \cup {None}, header : Names \cup {None},
                            model : Names \cup {None}]]
  /\ {DefaultTenant, DefaultModel} \subseteq Names /\ LoraTenants \subseteq Names
  /\ {MaxConcurrency, PoolThreads} \subseteq Nat \ {0}
  /\ Unwritable \subseteq Requests

VARIABLES
  pending, selected, seen, last, caller, futures, resolved, sched, hand,
  slots, work, task, tag, closer,   \* the AsyncDispatcher
  limiter,     \* the calls waiting for a thread, in order
  handler,     \* where each call's handler is
  response,    \* the HTTP status it answered, 0 before
  status,      \* result.status of each request, as the backend client set it
  received,    \* the requests with a request_received record
  completed    \* the requests with a request_completed record

dispatcherVars == <<pending, selected, seen, last, caller, futures, resolved,
                    sched, hand, slots, work, task, tag, closer>>
handlerVars == <<limiter, handler, response>>
logVars == <<received, completed>>
vars == <<dispatcherVars, handlerVars, status, logVars>>

\* `a or b`.
Or(a, b) == IF a # None THEN a ELSE b

TenantName == [r \in Requests |-> Or(Or(Body[r].tenant, Body[r].header), DefaultTenant)]
Adapter(t) == IF t \in LoraTenants THEN t ELSE None
ModelName == [r \in Requests |->
                Or(Or(Body[r].model, Adapter(TenantName[r])), DefaultModel)]

Dispatcher == INSTANCE AsyncDispatcher WITH
  Tenants <- Names, TenantOf <- TenantName,
  Models <- Names, NoModel <- None, ModelOf <- ModelName, NoRequest <- None,
  Impatient <- Requests, WaitOnClose <- TRUE

Calls == Requests \cup Probes

OnThread == {c \in Calls : handler[c] \notin {"idle", "arrived", "answered"}}

TypeOK ==
  /\ Dispatcher!TypeOK
  /\ limiter \in Seq(Calls)
  /\ handler \in [Calls -> {"idle", "arrived", "started", "probing", "received",
                            "dispatched", "returned", "logged", "answered"}]
  /\ response \in [Calls -> {0, 200, 500, 502}]
  /\ status \in [Requests -> {"none", "completed", "failed"}]
  /\ completed \subseteq received /\ received \subseteq Requests

Init ==
  /\ Dispatcher!Init
  /\ limiter = <<>>
  /\ handler = [c \in Calls |-> "idle"]
  /\ response = [c \in Calls |-> 0]
  /\ status = [r \in Requests |-> "none"]
  /\ received = {} /\ completed = {}
-----------------------------------------------------------------------------
\* The server: a call waits its turn for a thread.

Arrive(c) ==
  /\ handler[c] = "idle"
  /\ handler' = [handler EXCEPT ![c] = "arrived"]
  /\ limiter' = Append(limiter, c)
  /\ UNCHANGED <<dispatcherVars, response, status, logVars>>

TakeThread ==
  /\ limiter # <<>> /\ Cardinality(OnThread) < PoolThreads
  /\ handler' = [handler EXCEPT ![Head(limiter)] = "started"]
  /\ limiter' = Tail(limiter)
  /\ UNCHANGED <<dispatcherVars, response, status, logVars>>

HandlerStep(c, from, to) ==
  /\ handler[c] = from
  /\ handler' = [handler EXCEPT ![c] = to]
  /\ UNCHANGED <<limiter, response>>

Answer(c, from, code) ==
  /\ handler[c] = from
  /\ handler' = [handler EXCEPT ![c] = "answered"]
  /\ response' = [response EXCEPT ![c] = code]
  /\ UNCHANGED limiter

-----------------------------------------------------------------------------
\* health() and list_models(): a GET to the backend on the handler's thread,
\* with the client's timeout, which is for each read and not for the call.

CallBackend(p) ==
  /\ HandlerStep(p, "started", "probing")
  /\ UNCHANGED <<dispatcherVars, status, logVars>>

\* /health answers 200 whatever the backend says; /v1/models 200 or 502.
ProbeReturns(p) ==
  /\ \E code \in {200, 502} : Answer(p, "probing", code)
  /\ UNCHANGED <<dispatcherVars, status, logVars>>
-----------------------------------------------------------------------------
\* chat_completions().

\* Only completions logged.
LogNothing(r) ==
  /\ HandlerStep(r, "started", "received")
  /\ UNCHANGED <<dispatcherVars, status, logVars>>

LogReceived(r) ==
  /\ HandlerStep(r, "started", "received")
  /\ received' = received \cup {r}
  /\ UNCHANGED <<dispatcherVars, status, completed>>

\* This record is written outside the try block: a failure is a plain 500.
LogReceivedRaises(r) ==
  /\ r \in Unwritable
  /\ Answer(r, "started", 500)
  /\ UNCHANGED <<dispatcherVars, status, logVars>>

Dispatch(r) ==
  /\ HandlerStep(r, "received", "dispatched")
  /\ Dispatcher!Dispatch(r)
  /\ UNCHANGED <<status, logVars>>

\* A failed result answered at once, before its record is written.
ReturnFast(r) ==
  /\ IF status[r] = "failed" THEN Answer(r, "dispatched", 502)
                             ELSE HandlerStep(r, "dispatched", "returned")
  /\ Dispatcher!CallerReturns(r)
  /\ UNCHANGED <<status, logVars>>

Return(r) ==
  /\ HandlerStep(r, "dispatched", "returned")
  /\ Dispatcher!CallerReturns(r)
  /\ UNCHANGED <<status, logVars>>

\* dispatch() without a timeout.
NeverTimeOut(r) == FALSE

\* dispatch() raises after request_timeout_s + 5 s: 502, and no record.
TimeOut(r) ==
  /\ Answer(r, "dispatched", 502)
  /\ Dispatcher!CallerTimesOut(r)
  /\ UNCHANGED <<status, logVars>>

LogCompleted(r) ==
  /\ HandlerStep(r, "returned", "logged")
  /\ completed' = completed \cup {r}
  /\ UNCHANGED <<dispatcherVars, status, received>>

LogCompletedRaises(r) ==
  /\ r \in Unwritable
  /\ Answer(r, "returned", 502)
  /\ UNCHANGED <<dispatcherVars, status, logVars>>

\* The answer given without looking at the result's status.
RespondBlindly(r) ==
  /\ Answer(r, "logged", 200)
  /\ UNCHANGED <<dispatcherVars, status, logVars>>

Respond(r) ==
  /\ Answer(r, "logged", IF status[r] = "completed" THEN 200 ELSE 502)
  /\ UNCHANGED <<dispatcherVars, status, logVars>>

Handle(r) ==
  \/ LogReceived(r) \/ LogReceivedRaises(r) \/ Dispatch(r) \/ Return(r)
  \/ TimeOut(r) \/ LogCompleted(r) \/ LogCompletedRaises(r) \/ Respond(r)
-----------------------------------------------------------------------------
\* The dispatcher's own threads.

\* complete() returns a result, completed or failed, or it raises.
BackendEnds(r) ==
  /\ \/ /\ Dispatcher!BackendReturns(r)
        /\ \E s \in {"completed", "failed"} : status' = [status EXCEPT ![r] = s]
     \/ /\ Dispatcher!BackendRaises(r)
        /\ status' = [status EXCEPT ![r] = "failed"]
  /\ UNCHANGED <<handlerVars, logVars>>

DispatcherStep ==
  /\ \/ Dispatcher!SchedulerStep
     \/ Dispatcher!StartTask
     \/ \E r \in Requests :
          \/ Dispatcher!MarkResidency(r) \/ Dispatcher!ReleaseSlot(r)
          \/ Dispatcher!PopFuture(r) \/ Dispatcher!ResolveFuture(r)
  /\ UNCHANGED <<handlerVars, status, logVars>>

Next ==
  \/ \E c \in Calls : Arrive(c)
  \/ TakeThread
  \/ \E p \in Probes : CallBackend(p) \/ ProbeReturns(p)
  \/ \E r \in Requests : Handle(r) \/ BackendEnds(r)
  \/ DispatcherStep

Spec == Init /\ [][Next]_vars

\* The server's threads run and the clock of dispatch()'s timeout passes.
\* Nothing is assumed of the backend: the client's timeout is for each read,
\* so a response that keeps trickling may hold its thread for ever.
Fairness ==
  /\ WF_vars(TakeThread)
  /\ \A p \in Probes : WF_vars(CallBackend(p))
  /\ \A r \in Requests : WF_vars(Handle(r))

FairSpec == Spec /\ Fairness
-----------------------------------------------------------------------------
(* A client's answer and the log agree: it was told 200 exactly when the   *)
(* log says the request completed with success.  And what the log leaves   *)
(* out, a request received and answered without a request_completed        *)
(* record, is one whose dispatch timed out (or whose record could not be   *)
(* written).                                                               *)
AnswerAgreesWithLog ==
  \A r \in Requests : handler[r] = "answered" =>
    /\ response[r] = 200 <=> r \in completed /\ status[r] = "completed"
    /\ r \in received \ completed => caller[r] = "timedout" \/ r \in Unwritable

ProbesHoldThePool == Cardinality({p \in Probes : handler[p] = "probing"}) = PoolThreads

(* Even if no backend call ever ends, a call that reached the server is    *)
(* answered, the probes queued behind blocked chat calls included.  Only   *)
(* probes escape dispatch()'s timeout: a call stays without an answer if   *)
(* it is a probe whose own backend call never ends, or if probes like that *)
(* have taken every thread of the pool for ever.                           *)
EveryCallAnswered ==
  \A c \in Calls :
    handler[c] = "arrived" ~> \/ handler[c] = "answered"
                             \/ [](handler[c] = "probing")
                             \/ []ProbesHoldThePool
=============================================================================
