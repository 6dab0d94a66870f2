------------------------------- MODULE Serving -------------------------------
(***************************************************************************)
(* The gateway's scheduler as dispatcher_factory.py builds it from the     *)
(* environment: the AsyncDispatcher's threads over one of the three        *)
(* policies, with the weights or quanta config.py parsed and the prompt    *)
(* lengths tokenizer.py counted.  What AsyncDispatcher leaves to any       *)
(* policy, who is next, is the policy's own select_next() here.  DRR's     *)
(* loop takes many steps; the scheduler holds the condition's lock for all *)
(* of them, and whoever needs the lock waits.                              *)
(***************************************************************************)
EXTENDS WeightMap, FiniteSets

CONSTANTS
  Requests, Tenants, TenantOf, Models, NoModel, ModelOf, NoRequest,
  MaxConcurrency, Impatient, WaitOnClose,   \* as in AsyncDispatcher
  Prompt,             \* each request's prompt: its length, and its tokens
  TokenizerLoaded,    \* PromptTokenizer.is_loaded
  Environments,       \* SCHEDULER_MODE, TENANT_WEIGHTS and TENANT_QUANTA
  DefaultWeights, DefaultQuanta

ASSUME ServingAssumption ==
  /\ TenantOf \in [Requests -> Tenants] /\ ModelOf \in [Requests -> Models]
  /\ IsFiniteSet(Requests) /\ Impatient \subseteq Requests
  /\ NoModel \notin Models /\ NoRequest \notin Requests
  /\ MaxConcurrency \in Nat \ {0} /\ WaitOnClose \in BOOLEAN
  /\ Prompt \in [Requests -> [chars : Nat, ids : Nat \cup {Null}]]
  /\ TokenizerLoaded \in BOOLEAN
  /\ Accepted(DefaultWeights) /\ Accepted(DefaultQuanta)

VARIABLES
  cfg,                                        \* the GatewayConfig
  line, arrived,                              \* a FIFODispatcher
  order, queues, served,                      \* a WRRDispatcher
  rrOrder, rrIndex, queue, deficit, scanning, \* a DRRDispatcher
  selected,                                   \* history: what was selected
  seen, last, caller, futures, resolved, sched, hand, slots, work, task, tag,
  closer                                      \* the AsyncDispatcher

fifoVars == <<line, arrived>>
wrrVars == <<order, queues, served>>
drrVars == <<rrOrder, rrIndex, queue, deficit, scanning>>
policyVars == <<cfg, fifoVars, wrrVars, drrVars, selected>>
threadVars == <<seen, last, caller, futures, resolved, sched, hand, slots, work,
                task, tag, closer>>
vars == <<policyVars, threadVars>>
-----------------------------------------------------------------------------
\* tokenizer.py

fallback_token_count(chars) == Max({1, (chars + 3) \div 4})

\* ids is Null for a prompt that encode() cannot encode.
count_tokens(prompt) ==
  IF TokenizerLoaded /\ prompt.ids # Null THEN Max({1, prompt.ids})
  ELSE fallback_token_count(prompt.chars)

PromptTokens == [r \in Requests |-> count_tokens(Prompt[r])]

\* config.py, build_dispatcher() and the constructors of the policies: an
\* unset map gives the policy's own default, and DRR's quanta are at least 1.

Builds(e) ==
  /\ e.mode \in {"fifo", "wrr", "drr"}
  /\ \A spec \in {e.weights, e.quanta} : spec = Unset \/ Accepted(spec)

OrDefault(spec, default) ==
  LET s == IF spec = Unset THEN default ELSE spec
  IN  [order |-> KeyOrder(s), value |-> ParseWeightMap(s)]

Clamped(map) == [k \in DOMAIN map |-> Max({1, map[k]})]

from_env(e) == [mode    |-> e.mode,
                weights |-> OrDefault(e.weights, DefaultWeights),
                quanta  |-> OrDefault(e.quanta, DefaultQuanta)]

Configs == {from_env(e) : e \in {d \in Environments : Builds(d)}}

\* Tenants has every name that a map gives a weight or a quantum.
ASSUME ConfigAssumption ==
  \A c \in Configs : {c.weights.order, c.quanta.order} \subseteq Seq(Tenants) \ {<<>>}

FIFO == INSTANCE FIFODispatcher WITH queue <- line

WRR(c) == INSTANCE WRRDispatcher WITH
  Declared <- c.weights.order, DeclaredWeight <- c.weights.value

DRR(c) == INSTANCE DRRDispatcher WITH
  Declared <- c.quanta.order, DeclaredQuantum <- Clamped(c.quanta.value),
  DefaultQuantum <- 16, NoCount <- Null

\* A tenant's requests in a line of everybody's, in their order.
PartOf(s, t) ==
  LET part[i \in 0..Len(s)] ==
        IF i = 0 THEN <<>>
        ELSE IF TenantOf[s[i]] = t THEN Append(part[i - 1], s[i]) ELSE part[i - 1]
  IN  part[Len(s)]

\* The requests waiting, by tenant, wherever the policy keeps them.
Pending ==
  CASE cfg.mode = "fifo" -> [t \in Tenants |-> PartOf(line, t)]
    [] cfg.mode = "wrr"  -> queues
    [] cfg.mode = "drr"  -> queue

Dispatcher == INSTANCE AsyncDispatcher WITH pending <- Pending

Init ==
  /\ \E c \in Configs : cfg = c /\ FIFO!Init /\ WRR(c)!Init /\ DRR(c)!Init
  /\ Dispatcher!Init
-----------------------------------------------------------------------------
\* The policy chosen.

Uses(mode) == cfg.mode = mode

\* DRR's loop is the only one that lasts.
Unlocked == ~ scanning

Enqueue(r) ==
  /\ \/ Uses("fifo") /\ FIFO!Enqueue(r) /\ UNCHANGED <<wrrVars, drrVars>>
     \/ /\ Uses("wrr") /\ UNCHANGED <<fifoVars, drrVars>>
        /\ \E c \in Configs : cfg = c /\ WRR(c)!Enqueue(r)
     \/ /\ Uses("drr") /\ UNCHANGED <<fifoVars, wrrVars>>
        /\ \E c \in Configs : cfg = c /\ DRR(c)!Enqueue(r)
  /\ UNCHANGED cfg

\* The request select_next() has just returned goes into the scheduler's hand.
Take ==
  /\ Dispatcher!Goto("select", "submit")
  /\ hand' = selected'[Len(selected')]
  /\ Dispatcher!UnchangedBySched /\ UNCHANGED <<cfg, slots, work>>

SelectFIFO ==
  /\ Uses("fifo") /\ sched = "select"
  /\ FIFO!SelectNext
  /\ UNCHANGED <<wrrVars, drrVars>>
  /\ Take

\* A weight of 0 would raise ZeroDivisionError, which _run() does not catch.
SelectWRR ==
  /\ Uses("wrr") /\ sched = "select"
  /\ \E c \in Configs :
       /\ cfg = c
       /\ \A t \in Tenants : queues[t] # <<>> => WRR(c)!Weight(t) # 0
       /\ WRR(c)!SelectNext
  /\ UNCHANGED <<fifoVars, drrVars>>
  /\ Take

\* DRR's loop: the scheduler stays in select_next() until a head is paid for.
ScanDRR ==
  /\ Uses("drr") /\ sched = "select"
  /\ \E c \in Configs :
       cfg = c /\ (DRR(c)!BeginSelect \/ DRR(c)!VisitEmpty \/ DRR(c)!VisitSkip)
  /\ UNCHANGED <<cfg, fifoVars, wrrVars, threadVars>>

SelectDRR ==
  /\ Uses("drr") /\ sched = "select"
  /\ \E c \in Configs : cfg = c /\ DRR(c)!VisitServe
  /\ UNCHANGED <<fifoVars, wrrVars>>
  /\ Take

\* Each select_next()'s own reason to raise.
SelectNothing ==
  /\ \/ Uses("fifo") /\ FIFO!NothingQueued
     \/ Uses("wrr") /\ \E c \in Configs : cfg = c /\ WRR(c)!NoBest
     \/ Uses("drr") /\ Unlocked /\ \A t \in Tenants : queue[t] = <<>>
  /\ UNCHANGED policyVars
  /\ Dispatcher!Goto("select", "release")
  /\ Dispatcher!UnchangedBySched /\ UNCHANGED <<hand, slots, work>>
-----------------------------------------------------------------------------
\* The threads of AsyncDispatcher.

Dispatch(r) ==
  /\ caller[r] = "idle" /\ Unlocked
  /\ Enqueue(r)
  /\ futures' = futures \cup {r}
  /\ caller' = [caller EXCEPT ![r] = "waiting"]
  /\ Dispatcher!Notify
  /\ UNCHANGED <<seen, last, resolved, hand, slots, work, task, tag, closer>>

SchedulerStep ==
  \/ SelectFIFO \/ SelectWRR \/ ScanDRR \/ SelectDRR \/ SelectNothing
  \/ /\ UNCHANGED policyVars
     /\ \/ Dispatcher!CheckStopped \/ Dispatcher!AcquireSlot
        \/ Dispatcher!ReleaseEmptySlot
        \/ Dispatcher!BeginWait \/ Dispatcher!WaitTimesOut
        \/ Dispatcher!Submit \/ Dispatcher!SubmitRefused

StartTask == work # <<>> /\ UNCHANGED policyVars /\ Dispatcher!StartTask

Serve(r) ==
  /\ task[r] \in Dispatcher!Running
  /\ UNCHANGED policyVars
  /\ \/ Dispatcher!MarkResidency(r) \/ Dispatcher!BackendReturns(r)
     \/ Dispatcher!BackendRaises(r) \/ Dispatcher!ReleaseSlot(r)
     \/ Unlocked /\ Dispatcher!PopFuture(r)
     \/ Dispatcher!ResolveFuture(r)

CallerReturns(r) == UNCHANGED policyVars /\ Dispatcher!CallerReturns(r)
CallerTimesOut(r) == UNCHANGED policyVars /\ Dispatcher!CallerTimesOut(r)

CloseStop == UNCHANGED policyVars /\ Dispatcher!CloseStop

CloseStep ==
  /\ UNCHANGED policyVars
  /\ \/ Unlocked /\ Dispatcher!CloseNotify
     \/ Dispatcher!CloseShutdown \/ Dispatcher!CloseReturn

Next ==
  \/ \E r \in Requests :
       Dispatch(r) \/ Serve(r) \/ CallerReturns(r) \/ CallerTimesOut(r)
  \/ SchedulerStep \/ StartTask \/ CloseStop \/ CloseStep

Spec == Init /\ [][Next]_vars

\* Threads run: the scheduler, DRR's loop included, some thread of the pool
\* that can go on (a backend call ends: its client has timeouts), and close()
\* once called.  Nobody has to dispatch, to give up or to close.
Fairness ==
  /\ WF_vars(SchedulerStep)
  /\ WF_vars(StartTask \/ \E r \in Requests : Serve(r))
  /\ WF_vars(CloseStep)

FairSpec == Spec /\ Fairness
-----------------------------------------------------------------------------
(* The dispatcher over each real policy, DRR's many-step loop under the    *)
(* lock included, is the AsyncDispatcher over some policy: what is checked *)
(* and proved of that module holds of every gateway the factory builds.    *)
ImplementsDispatcher == Dispatcher!Spec

(* "FIFO admission policy: requests are served in arrival order"           *)
(* (dispatcher.py:9), through all the threads: no request starts before    *)
(* one that was enqueued earlier, of its own tenant or of another.         *)
FirstComeFirstStarted ==
  Uses("fifo") => \A i, j \in 1..Len(arrived) :
    i < j /\ arrived[j] \in Dispatcher!Started => arrived[i] \in Dispatcher!Started

(* With max_concurrency 1 the tags say what the order of selection says,   *)
(* whichever policy selects.                                               *)
TagsFollowSelection == Dispatcher!TagsFollowSelection

(* Every request is answered unless the dispatcher is closed: no weight,   *)
(* quantum, prompt or tenant that passes the parsers makes select_next()   *)
(* loop for ever under the lock, pass a tenant over, or raise what _run()  *)
(* does not catch (a weight of 0 would divide by zero).                    *)
EveryRequestAnswered == Dispatcher!EveryRequestAnswered

(* After close() the scheduler thread ends under each policy, also when it *)
(* is in the middle of DRR's loop.                                         *)
CloseEndsScheduler == Dispatcher!CloseEndsScheduler
=============================================================================
