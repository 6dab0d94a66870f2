----------------------------- MODULE MeasuredRun -----------------------------
(***************************************************************************)
(* Gateways under load, one after the other, the log they append to, and   *)
(* what the analysis makes of that log.  A gateway classifies a request    *)
(* when it marks residency, in _serve(); the analysis classifies it again, *)
(* by the dispatch_ts that the backend client takes a little later; and    *)
(* the record is written by the caller's handler, later still, with a      *)
(* finish_ts of its own.  On several threads these three orders differ.    *)
(* A gateway, or its node, may die at any time, even while it writes a     *)
(* line, and its successor starts with a new tracker and the old log.      *)
(*                                                                         *)
(* Everything a gateway is sent has arrived when it starts, and is started *)
(* in the order of its workload: what AsyncDispatcher and the policies do  *)
(* is taken as done.  Time is the number of time stamps taken.             *)
(***************************************************************************)
EXTENDS LogAnalysis, SequencesExt

CONSTANTS
  Workloads,    \* the requests each gateway is sent, in the order selected
  Schedulers,   \* SCHEDULER_MODE of a gateway
  TenantOf, Models, ModelOf, NoModel,
  NonAscii,     \* the tenants and models named with characters of several bytes
  MaxWorkers    \* the largest max_concurrency considered

SentTo(k) == ToSet(Workloads[k])

Requests == UNION {SentTo(k) : k \in DOMAIN Workloads}

ASSUME MeasuredRunAssumption ==
  /\ Workloads \in Seq(Seq(Requests) \ {<<>>}) \ {<<>>}
  /\ \A k \in DOMAIN Workloads : IsInjective(Workloads[k])
  /\ \A k, l \in DOMAIN Workloads : k # l => SentTo(k) \cap SentTo(l) = {}
  /\ DOMAIN TenantOf = Requests
  /\ ModelOf \in [Requests -> Models] /\ NoModel \notin Models
  /\ MaxWorkers \in Nat \ {0}

VARIABLES
  workers,     \* max_concurrency of these gateways
  ran,         \* the scheduler of each gateway so far
  began,       \* arrival_ts of what this gateway was sent
  seen, last,  \* the ResidencyTracker
  tag,         \* the tags of each request
  stage,       \* how far each request is
  clock,       \* time.time(), counted
  dispatch,    \* dispatch_ts of each result
  log          \* the log file

gatewayVars == <<workers, ran, began>>
runVars == <<gatewayVars, seen, last, tag, stage, clock, dispatch, log>>

Tracker == INSTANCE ResidencyTracker

Busy == {r \in Requests : stage[r] \in {"started", "marked", "streaming"}}

Workload == Workloads[Len(ran)]

RunTypeOK ==
  /\ workers \in 1..MaxWorkers /\ Cardinality(Busy) <= workers
  /\ ran \in Seq(Schedulers) /\ Len(ran) \in 1..Len(Workloads) /\ began \in 0..clock
  /\ Tracker!ResidencyTypeOK
  /\ tag \in [Requests -> Tracker!Tags]
  /\ stage \in [Requests -> {"queued", "started", "marked", "streaming", "ended",
                             "recorded", "lost"}]
  /\ clock \in Nat /\ dispatch \in [Requests -> Nat]
  /\ \A m \in Range(Metrics(log)) :
       m.queue_delay > 0 /\ m.service_time > 0 /\ m.finish <= clock

\* What the k-th gateway, whose scheduler is s, logs of the requests sent to it.
Reception(r, s, arrival) ==
  [event |-> "request_received", request |-> r, tenant |-> TenantOf[r], model |-> ModelOf[r],
   arrival |-> arrival, scheduler |-> s]

Receptions(k, s, arrival) ==
  [i \in DOMAIN Workloads[k] |-> Reception(Workloads[k][i], s, arrival)]

\* What the current gateway logs of a result.
Completion(r, finish) ==
  [event |-> "request_completed", request |-> r, tenant |-> TenantOf[r], model |-> ModelOf[r],
   arrival |-> began, scheduler |-> Last(ran), dispatch |-> dispatch[r], finish |-> finish,
   cold |-> tag[r].cold, switch |-> tag[r].switch]

RunInit ==
  /\ workers \in 1..MaxWorkers
  /\ ran \in {<<s>> : s \in Schedulers} /\ began = 0
  /\ Tracker!ResidencyInit
  /\ tag = [r \in Requests |-> [cold |-> FALSE, switch |-> FALSE]]
  /\ stage = [r \in Requests |-> "queued"]
  /\ clock = 0
  /\ dispatch = [r \in Requests |-> 0]
  /\ log = Receptions(1, ran[1], 0)
-----------------------------------------------------------------------------
Step(r, from, to) == stage[r] = from /\ stage' = [stage EXCEPT ![r] = to]

Stamp(r) == clock' = clock + 1 /\ dispatch' = [dispatch EXCEPT ![r] = clock + 1]

\* A worker takes the next request.
Start(i) ==
  /\ Cardinality(Busy) < workers
  /\ \A j \in 1..(i - 1) : stage[Workload[j]] # "queued"
  /\ Step(Workload[i], "queued", "started")
  /\ UNCHANGED <<gatewayVars, seen, last, tag, clock, dispatch, log>>

MarkResidency(r) ==
  /\ Step(r, "started", "marked")
  /\ tag' = [tag EXCEPT ![r] = Tracker!Classify(ModelOf[r])]
  /\ Tracker!Mark(ModelOf[r])
  /\ UNCHANGED <<gatewayVars, clock, dispatch, log>>

\* complete() takes dispatch_ts before it does anything else.
CallBackend(r) ==
  /\ Step(r, "marked", "streaming")
  /\ Stamp(r)
  /\ UNCHANGED <<gatewayVars, seen, last, tag, log>>

\* Its result, completed or failed: the analysis treats them alike.
BackendReturns(r) ==
  /\ Step(r, "streaming", "ended")
  /\ UNCHANGED <<gatewayVars, seen, last, tag, clock, dispatch, log>>

\* A failed result that keeps no time of dispatch.
RaiseUnstamped(r) ==
  /\ Step(r, "marked", "ended")
  /\ UNCHANGED <<gatewayVars, seen, last, tag, clock, dispatch, log>>

\* complete() raised: _failure() stamps the result with the time it is built.
BackendRaises(r) ==
  /\ Step(r, "marked", "ended")
  /\ Stamp(r)
  /\ UNCHANGED <<gatewayVars, seen, last, tag, log>>

\* dispatch() had timed out by then: nobody records the result.
TimedOut(r) ==
  /\ Step(r, "ended", "lost")
  /\ UNCHANGED <<gatewayVars, seen, last, tag, clock, dispatch, log>>

\* The handler takes finish_ts and writes the record.
LogCompleted(r) ==
  /\ Step(r, "ended", "recorded")
  /\ clock' = clock + 1
  /\ log' = Append(log, Completion(r, clock + 1))
  /\ UNCHANGED <<gatewayVars, seen, last, tag, dispatch>>

\* What is left of a line that names r's tenant and model.  The logger writes
\* every character as it is, and one of several bytes may be cut in two.
TornLines(r) ==
  {[event |-> "torn"]}
    \cup {[event |-> "undecodable"] : name \in NonAscii \cap {TenantOf[r], ModelOf[r]}}

\* The gateway dies and another one is started, with the scheduler s.  A line it
\* was writing may stay without its end, and then the next line is glued to it.
Restart(s) ==
  LET received == Receptions(Len(ran) + 1, s, clock)
  IN  /\ Len(ran) < Len(Workloads)
      /\ ran' = Append(ran, s) /\ began' = clock
      /\ seen' = {} /\ last' = NoModel
      /\ stage' = [r \in Requests |->
                     IF r \in SentTo(Len(ran)) /\ stage[r] # "recorded" THEN "lost" ELSE stage[r]]
      /\ \/ log' = log \o received
         \/ \E r \in Requests : \E line \in TornLines(r) :
              stage[r] = "ended" /\ log' = log \o <<line>> \o Tail(received)
      /\ UNCHANGED <<workers, tag, clock, dispatch>>

RunNext ==
  \/ \E i \in DOMAIN Workload : Start(i)
  \/ \E r \in Requests :
       \/ MarkResidency(r) \/ CallBackend(r) \/ BackendReturns(r) \/ BackendRaises(r)
       \/ TimedOut(r) \/ LogCompleted(r)
  \/ \E s \in Schedulers : Restart(s)

RunSpec == RunInit /\ [][RunNext]_runVars
-----------------------------------------------------------------------------
Records(s) == OfScheduler(Metrics(log), s)

\* The gateways that ran with scheduler s, and whether they recorded everything.
Gateways(s) == {k \in DOMAIN ran : ran[k] = s}
Complete(s) ==
  \A k \in Gateways(s) : \A r \in SentTo(k) : stage[r] = "recorded"

TaggedCold(s) == {i \in DOMAIN Records(s) : log[i].cold}
TaggedSwitch(s) == {i \in DOMAIN Records(s) : log[i].switch}

(* "A request is 'cold' if it is the first request (by dispatch time) for  *)
(* its model" (analyze.py:56-57), against the gateway's own tag in the     *)
(* same log.  Of one gateway, they may name different requests.  When its  *)
(* callers timed out, so that the log lacks requests, the analysis counts  *)
(* no fewer than were tagged, and of several gateways with one scheduler   *)
(* it makes one, while each of them tagged a first request of its own.     *)
(* When every request is recorded it counts no more than were tagged, and  *)
(* with max_concurrency 1 and one gateway the two are the same, request by *)
(* request, switches included.                                             *)
TagsAgree ==
  \A s \in Schedulers :
    LET cold == Cold(Records(s))
    IN  /\ Cardinality(TaggedCold(s)) <= Cardinality(Gateways(s)) * Cardinality(cold)
        /\ Complete(s) => Cardinality(cold) <= Cardinality(TaggedCold(s))
        /\ Complete(s) /\ workers = 1 /\ Cardinality(Gateways(s)) = 1 =>
             /\ TaggedCold(s) = cold
             /\ TaggedSwitch(s) = {p[2] : p \in Switches(Records(s))}

(* "switch gap is the finish->dispatch interval" (analyze.py:58): the gaps *)
(* are idle time, so that overlapping requests, or a time without any      *)
(* gateway, must not make them add up to more than the whole report spans, *)
(* neither in a scheduler's report nor in a tenant's.                      *)
GapsFitWindow ==
  \A s \in Schedulers : \A t \in Range(TenantOf) :
    \A items \in {Records(s), OfTenant(Records(s), t)} : GapTotal(items) <= Window(items)

(* A dying gateway leaves a torn line in the middle of the log, and its    *)
(* successor's first reception is lost with it.  Nothing else is, unless   *)
(* the line was cut inside a character: every completion recorded is       *)
(* analysed, once, under its own scheduler.  Only the lost completion of a *)
(* tenant or model with a name that is not ASCII can take every other one  *)
(* with it.                                                                *)
AnalysedOnce ==
  /\ Readable(log) =>
       \A s \in Schedulers : \A r \in Requests :
         LET analysed == {i \in DOMAIN Records(s) : log[i].request = r}
             recorded == stage[r] = "recorded" /\ \E k \in Gateways(s) : r \in SentTo(k)
         IN  Cardinality(analysed) = IF recorded THEN 1 ELSE 0
  /\ (\A s \in Schedulers : DOMAIN Records(s) = {}) =>
       \/ \A r \in Requests : stage[r] # "recorded"
       \/ \E r \in Requests : stage[r] = "lost" /\ NonAscii \cap {TenantOf[r], ModelOf[r]} # {}
=============================================================================
