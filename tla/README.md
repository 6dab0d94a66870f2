# A specification of the multi-tenant LLM gateway

This directory specifies the gateway of this repository in TLA+: what its
scheduler, its threads, its three admission policies, its HTTP handlers and its
vLLM client do, what the load generator, the log analysis and the cluster sweep
around it do, what they promise, and how far the code keeps the promise. TLC
checks the promises on small instances; TLAPS proves the most important ones
for every instance.

Read `AsyncDispatcher.tla` first: it is the heart of the program.

## 1. The system

| Part | Source | State | Operations |
|---|---|---|---|
| AsyncDispatcher | `gateway/dispatcher/async_dispatcher.py` | the policy's queues, `_futures`, the semaphore `_slots`, the executor and its queue, `_stopped`, the scheduler thread | `dispatch` (any number of callers), `_run` (one thread), `_serve` (`max_concurrency` threads), `close` |
| Policies | `dispatcher.py`, `dispatcher_wrr.py`, `dispatcher_drr.py`, chosen by `dispatcher_factory.py` | one queue (FIFO); queues, lifetime counts, visiting order (WRR); queues, deficits, order, index (DRR) | `enqueue`, `select_next` |
| ResidencyTracker | `residency.py` | models seen, model served last | `mark` |
| HTTP proxy | `gateway/proxy.py` | none of its own but one thread per call | `chat_completions`, `health`, `list_models` |
| vLLM client | `gateway/vllm_client.py` | one streamed call | `complete`, `build_payload`, `_consume_stream` |
| Request logger | `request_logger.py` | a JSON-lines file | `log` |
| Configuration, factory, tokenizer | `config.py`, `dispatcher_factory.py`, `tokenizer.py` | none | parse the weights and quanta, choose the policy, count a prompt |
| Log analysis | `scripts/analyze.py` | none | read a log that may have torn lines, join its records, classify requests, sum gaps |
| Load generator | `scripts/loadgen.py` | the requests submitted, the results collected, the summary file | a closed loop or the replay of a trace on a thread pool; one summary |
| Trace generator | `scripts/gen-trace.py` | a trace file | sample arrivals of one of four kinds |
| Cluster sweep | `scripts/run-sweep.sh`, `scripts/slurm/*` | `run/vllm.url`, `run/gateway.url`, Slurm's jobs | the driver's steps; start, health, publication and end of the vLLM, gateway and load test jobs |
| Single experiment | `scripts/run-experiment.sh` | the same | one round of the sweep; its gateway and `gateway.url` stay, wherever it ends |

How they interact. A chat request is a call of the proxy, on a thread of the
web server's pool. The handler logs it, and `dispatch()` puts it into the policy
under the dispatcher's lock, registers a future and notifies the scheduler. The
scheduler thread takes a slot of the semaphore, then asks the policy for a
request, and hands it to the executor; if there is none it gives the slot back
and waits to be notified, for half a second at most. A pool thread marks the
model's residency, calls the backend, gives the slot back, pops the future and
resolves it; the handler wakes up, logs the result and answers. Callers may give
up before that (`request_timeout_s + 5`); their request does not.

What is hard in it:

* five kinds of thread share the lock, the semaphore, the executor's queue and
  the futures, and let go of one before they take the next: between an empty
  `select_next()` and `wait()`, between the selection and `submit()`, between
  the release of the slot and the resolution of the future;
* callers time out while their request is queued, in service or just done;
* `close()` may come between any two of those steps, cancels what has not
  started and makes `submit()` raise;
* the policies keep history: a lifetime count (WRR) and a deficit (DRR) decide
  what a tenant gets long after the requests that caused them;
* the server's own thread pool sits in front of all this;
* the client turns a stream that may break off anywhere into one result;
* one request is marked, dispatched and recorded in three different orders by
  three threads, several gateways append to one log, any of them may die in the
  middle of a line, and the analysis has to make sense of what is left;
* a send that raises is found out when its result is collected, while the other
  sends are still queued or under way;
* what the environment says reaches the policies through three parsers, and
  DRR's loop may take many turns while it holds the dispatcher's lock;
* the jobs of a sweep know each other by two files only, which outlive whoever
  wrote them; several gateways may share a node and the one port they all use;
* every command of the sweep may fail after it has had its effect, or succeed
  without one: `sbatch` interrupted when Slurm has accepted the job, `scancel`'s
  error discarded, `squeue`'s taken for an answer.

`PROJECT.json` lists each of these hazards at its line with the properties that
speak of it, and those no property covers yet.

### What makes each part correct

* *Dispatcher*: slots are conserved; a request is in one place from `dispatch()`
  to the end of `_serve()`; the registry of futures is exact; requests start in
  the order selected; every request is answered while the dispatcher is open.
* *Policies*: each implements one contract (`AdmissionPolicy`); FIFO keeps the
  order of arrival; WRR and DRR bound how far one tenant gets ahead of a waiting
  one; DRR conserves tokens and its loop ends.
* *Residency*: one request per model is tagged cold; tags tell the order served.
* *Proxy*: answers agree with the log; every call is answered, but for probes
  whose own backend call never ends, and for what waits behind a pool full of them.
* *Client*: a completed result is what was streamed; a failed one is blank.
* *Configuration*: whatever the parsers let through makes a scheduler that
  answers every request.
* *Analysis*: its classification of a log agrees with the gateway's own tags; it
  counts each recorded completion once, unless a line was cut inside a character,
  which takes all of them; idle gaps are idle time.
* *Load generator*: it ends, with every request sent and ended, also when one of
  them raised; its summary counts each once; tenants get their share of a mix at
  any time; a replay sends nothing early nor out of order.
* *Sweep*: a load test measures the gateway of its own round. The code does not
  ensure that much; what it does ensure is that nobody answers the test but that
  gateway and whoever was on its node before it. No gateway is forgotten: one at
  most has not been given to `scancel`, and none whose id is known when the script
  ends. It does end, unless it waits for a job that Slurm never starts, or for a
  server that never answers.

## 2. The modules

| Module | Models | Builds on |
|---|---|---|
| `AdmissionPolicy` | abstract: what any policy promises the dispatcher | |
| `AdmissionControl` | abstract: what the dispatcher promises its callers | |
| `ResidencyTracker` | `residency.py` | |
| `AsyncDispatcher` | `async_dispatcher.py` | instances of `AdmissionPolicy` and `ResidencyTracker`; implements `AdmissionControl` |
| `FIFODispatcher` | `dispatcher.py` | |
| `WRRDispatcher` | `dispatcher_wrr.py` | |
| `WRRFairness` | the same with history variables: who was served while a head waited | extends `WRRDispatcher` |
| `DRRDispatcher` | `dispatcher_drr.py`, one step per turn of the loop | |
| `DRRFairness` | the same with history variables: turns, tokens spent, what a head waited for | extends `DRRDispatcher` |
| `WeightMap` | the specs of weights, quanta and mixes: `config.py`'s parsers and `loadgen.py`'s | |
| `Serving` | the scheduler as the factory builds it from an environment: the dispatcher's threads over one of the three policies; `tokenizer.py` | instances of `AsyncDispatcher` and of the three policies; extends `WeightMap`; implements `AsyncDispatcher`, and through it `AdmissionPolicy` |
| `Gateway` | `proxy.py` and the server's thread pool | an instance of `AsyncDispatcher` |
| `VLLMClient` | one `complete()` of `vllm_client.py` against a server | |
| `LogAnalysis` | `analyze.py`, as functions of the places in a log | |
| `MeasuredRun` | gateways under load, one after the other, the log they append to, the analysis of that log | extends `LogAnalysis`; an instance of `ResidencyTracker` |
| `TraceGenerator` | `gen-trace.py`: the set of traces each kind can produce | |
| `LoadGenerator` | `loadgen.py`: `main()`, its pool of workers, the summary | extends `WeightMap` and `TraceGenerator` |
| `Sweep` | `run-sweep.sh` and the jobs it submits | |
| `AsyncDispatcher_proofs`, `WRRFairness_proofs`, `DRRFairness_proofs`, `VLLMClient_proofs`, `Sweep_proofs` | theorems | extend the module named |
| `Measurement_proofs` | theorems about what is measured: the load generator's requests and summary, the gateways' log and its analysis | extends `LoadGenerator` and `MeasuredRun` |
| `Serving_proofs`, `Gateway_proofs` | theorems | the same, with instances of `AsyncDispatcher_proofs` whose theorems they inherit |
| `MC*` | the values TLC is given | extend the module named |

An operator that no action uses and whose comment describes a mistake
(`RaiseKeepsSlot`, `StayOnTenant`, ...) stands beside the definition it would
replace; each property is known to fail when its mutant takes that place.

### State and steps of `AsyncDispatcher`

| Variable | Code |
|---|---|
| `pending`, `selected` | the policy's queues by tenant; the history of `select_next()` |
| `seen`, `last` | `ResidencyTracker._seen`, `_last` |
| `caller` | where each `dispatch()` call is: not made, in `future.result()`, returned, timed out |
| `futures`, `resolved` | the keys of `_futures`; the futures with a result |
| `sched`, `hand` | the scheduler's place in `_run()` and its local `request` |
| `slots` | the semaphore's count |
| `work`, `task` | the executor's queue; each request's place in `_serve()`, or that it was cancelled |
| `tag` | the two tags `mark()` returned for the request |
| `closer` | where `close()` is |

One action is one stretch of code that other threads see as atomic: a block
under the condition's lock (`Dispatch`, `SelectRequest`/`SelectNothing`,
`PopFuture`), one call of the semaphore, the executor or a future (`AcquireSlot`,
`ReleaseEmptySlot`, `ReleaseSlot`, `Submit`, `StartTask`, `ResolveFuture`,
`CloseShutdown`), or one read of the stop flag (`CheckStopped`). The lock is not
a variable because no action is split inside it. `BeginWait` is a step of its own:
a `Notify` that comes before it is lost, as in the code, and only `WaitTimesOut`
(the 0.5 s of line 68) repairs that. What happens inside `complete()` is one
step between `BackendReturns`/`BackendRaises` and the mark; `VLLMClient` opens
it up.

`Gateway` runs `AsyncDispatcher`'s own actions through an instance and adds the
handlers' steps: a handler's `Dispatch` is the dispatcher's `Dispatch` and the
handler's move in one. The gateway never calls `close()`, so those actions take
no part in it. A probe calls the backend on its own thread of the server
(`CallBackend`) and stays in `"probing"` until that call returns or raises
(`ProbeReturns`), which it need never do: the client's timeout is one for each
read. The server's pool (`limiter`, `TakeThread`) is external: the web framework
runs every plain `def` handler on a bounded thread pool.

`Serving` has the variables of `AsyncDispatcher` but for `pending`, which it
defines as the waiting requests of whichever policy the configuration chose
(`Pending`), and the variables of the three policies, of which one set moves.
`cfg` is the `GatewayConfig`: `from_env` parses each environment, `Builds` says
which ones the gateway refuses to start with. A selection is the policy's own
`SelectNext` and the scheduler's move in one (`Take`); a policy that finds nothing says so by its own test (`NothingQueued`,
`NoBest`, all queues empty), so a policy that misses a waiting request is not the
`AsyncDispatcher`. `ConfigAssumption` is what the parsers leave of an accepted
environment: both orders name tenants, and name one at least. DRR's loop is many steps
(`ScanDRR`), during which `Unlocked` is false and whoever needs the condition's
lock (`Dispatch`, `PopFuture`, `CloseNotify`) waits. The refinement
`ImplementsDispatcher` maps those turns to stutters: what `AsyncDispatcher`'s run
and theorems say of "some policy" then holds of the three that exist.

`LoadGenerator` has `main()`'s place in its loops (`main`), the state of each
submitted request (`send`, in the order of submission), and the results taken
from `as_completed()` (`collected`). `CollectRaises` is a result that raises
where it is collected; `Unwind` is the `with` block, which lets the exception out
only when the pool has run dry. The mix and the trace of a run are chosen at its
start.

`MeasuredRun` takes what `AsyncDispatcher` does to a request for granted and
keeps what the log depends on: when a worker starts it, when it is marked, when
`complete()` takes `dispatch_ts`, when its caller gives up, and when the handler
takes `finish_ts` and writes the record. `workers` is `max_concurrency`, chosen
at the start of a behaviour, so that one run compares serial and concurrent ones.
`ran` is the scheduler of each gateway so far and `began` the time the current one
was sent its workload; `Restart` kills it, possibly in the middle of a line, and
starts the next one with an empty `ResidencyTracker` and the old log. What is left
of the line is no JSON; if it names a tenant or model of `NonAscii` it may also be
no UTF-8 (`TornLines`), as the logger writes characters as they are. Its names
start with `Run` where `LoadGenerator` has the same ones (`RunInit`, `RunSpec`).

`LogAnalysis` computes on functions whose domain is a set of places in the log.
`load_events` passes over a line that is no JSON; a line that is no UTF-8 raises
where it is read, outside the `try`, and then there is nothing to analyse
(`Readable`). Where `analyze.py` filters a list or groups one, the function is
restricted, and the places keep the order. Its sort by `dispatch_ts` is the relation `Before`
(ties in the order of the log, as `sorted()` is stable), the loop over the sorted
list is `Previous` and `FirstOfModel`.

`Sweep` has one state per job and one for the driver. `driver` is the command
`run-sweep.sh` is at, `exiting` that its trap runs, `round` the pair of its loops,
`job` its `GATEWAY_JOB`, `addr` the address it read once and probes until it
answers. `vllm`, `gateway`, `load` are the states of the jobs; `vllmUrl` and
`gatewayUrl` the two files; `node`, `backend` and `target` what a gateway and a
load test were given or read when they started. History variables say whose id
the driver got (`known`) and gave to `scancel` (`given`), who was on a gateway's
node when it started (`beside`), who answered a load test (`via`) and which tests
the driver did not wait for (`unwaited`).

Each command that others can come between is a step: Slurm's acceptance of a job
and the assignment of its id (`SubmitGateway`, `AssignJob`); `scancel`, the
clearing of `GATEWAY_JOB` and the removal of the file (`ScancelGateway`,
`ClearJob`, `RemoveGatewayUrl`). `scancel` changes no job: the end it asks for is
`GatewayEnds`, which may come at any time or never, and so a `scancel` that fails
is a behaviour like any other. `GiveUp` is where the script itself exits 1: a
bounded loop, a probe's timeout, an error of `sbatch`, also when Slurm has
accepted the job. `wait_for_job` is not among them. What else may end it is an
accident: a signal at any command (`Interrupt`), a `curl` that hangs (`CurlHangs`),
an error of `squeue` (`SqueueFails`). A script that is killed without its trap is
one that takes no further step, which safety allows anybody. `Init` is what earlier
experiments leave: a vLLM job or its file, gateways in the states `Left`,
`gateway.url`.

### Abstractions

* A request is a model value; `TenantOf`, `ModelOf` and `PromptTokens` give the
  fields the code branches on. Texts, prompts, temperatures and the layout of
  responses are left out.
* `served / weight` is a float in the code and an exact rational here. Doubles
  divide correctly rounded, so two different ratios of integers below 2^26 stay
  different and in order.
* Time is the order of events. A timeout may fire in any state it is armed in.
* A policy's `select_next()` raises only `RuntimeError` in `AsyncDispatcher`. In
  `Serving` that is a result: the parsers let no weight below 1 through, so WRR
  never divides by zero (`SelectWRR` would be stuck, and requests unanswered).
* A spec of weights is a sequence of parts, each a key and a value that is a
  number, missing, or no number; the variable that is not set is `Null`, and a text
  with no part in it, such as ",", the empty sequence, which is refused. The mode is
  taken as lower-cased and trimmed.
* In the load generator, time is the number of ticks since the start, and prompts,
  latencies and rates are left out. The traces are those that some outcome of the
  random numbers gives, with gaps from a small set.
* A streamed line is one of eight kinds; a time in the client is the number of
  lines read.
* `request_id` is unique (uuid4); a request is dispatched once.
* In the analysis, time is the number of time stamps taken. Means, percentiles,
  token sums and the fairness index are left out; they describe the sets of
  records computed here.
* The address of a vLLM job is the job, that of a gateway its node: all gateways
  use one port. `vllm.jobid` and `vllm.load_time_s` are not modelled: no job
  reads them.

## 3. What TLC checks

| Run | Question | Result |
|---|---|---|
| `AsyncDispatcher` | Slots, places, registry, start order, cold tags and the refinement of `AdmissionControl`, under every interleaving of three requests, two workers, one impatient caller and `close(wait=True)` | holds |
| `Serving` | For each policy, as built from each environment: is the composition the `AsyncDispatcher`? With one slot, do requests start in FIFO's order of arrival, and do the tags say what the order of selection says? Is every request answered while open, also when its notify is lost? Does the scheduler end after `close(wait=False)`, also in DRR's loop? | holds, see below |
| `ConcurrentTags` | And with two workers, do the tags follow the selection? | **violated** |
| `WRRFairness` | A winner for every backlog, how far a tenant runs ahead of a waiting one, the weighted share | holds |
| `DRRFairness` | Token accounts, token share, wait of a head, end of the loop | holds |
| `DRRServedOnce` | Is a head served as soon as its deficit covers it? | **violated** |
| `Gateway` | Answers and log agree, with failing backends, timeouts and an unwritable log; who is missing from the log; every call answered with no backend call sure to end, probes' included | holds, see Fairness |
| `VLLMClient` | Results against streams, all overrides, all lines | holds |
| `MeasuredRun` | The analysis of a log of several gateways against their tags; idle gaps against the length of the run; each recorded completion analysed once, torn lines or not | holds, unless a line is cut inside a character |
| `LoadGenerator` | Everything sent and ended when the program exits, raised sends included; the summary's accounts; shares of a mix at any time; order and time of a replay; the end of the program | holds |
| `Sweep` | Wherever Slurm puts the gateways and whatever fails: whom can a load test measure, which gateways can escape `scancel`, does the sweep end? | only its own gateway and that one's neighbours; one at most; yes, with two exceptions |
| `SweepSqueue` | Own gateway measured, if `squeue` may fail, with every gateway on a node of its own? | **violated** |

Every property also has a mutant in `PROJECT.json`: a change of one action, of
the kind a slip in that code would be, under which TLC reports the property
violated.

### The disagreements

1. `residency.py:11-12` says `mark()` is called in serve order. It is the first
   statement of `_serve()`, on whichever pool thread runs first. With two workers
   a later request may mark first: the tags of both contradict the order of
   selection (`ConcurrentTags`). What does hold is that each model has exactly
   one cold request (`OneColdPerModel`), the exact tags with one worker, and that
   the analysis of one gateway's complete log finds as many cold requests as were
   tagged (`TagsAgree`).
2. `dispatcher_drr.py:21-22` says a head is served once the deficit covers it.
   A visit serves one request and moves on, whatever is left (`DRRServedOnce`).
   The unspent tokens stay, so `TokenShare` (an upper bound on what a rival gets)
   and `HeadWaitBound` hold, but a tenant of small requests gets turns, not
   tokens, in proportion.
3. `run-sweep.sh:9-11` says that each iteration submits a fresh gateway, runs the
   load generator and waits for it to finish. `wait_for_job` discards `squeue`'s
   errors and takes an empty answer for a finished job: the next round's gateway is
   then what the pending test measures (`SweepSqueue`). Two more things come between
   the fresh gateway and its load test, each on its own. `MeasuresOwnGateway`, with
   `SqueueMayFail = FALSE`, is violated with
   * `MayShareNode = TRUE`: `run-gateway.sbatch` does not ask for a node of its own,
     and `scancel` only asks for a job's end. A successor on the same node publishes
     an address its predecessor still answers at;
   * `Left = {"pending"}`: the loop takes any `gateway.url` for the fresh gateway's,
     also that of a job `run-experiment.sh` left in the queue when it gave up.

   What does hold, if no earlier experiment left a gateway that is still to publish
   its address, is `OnlyNeighboursAnswer`: a test the driver waited for is answered
   by its own gateway or one that was on that gateway's node when it started, so a
   gateway that starts alone on its node is the one measured. The run `Sweep` checks
   it with shared nodes and failing `squeue`s.

Three more things the models show without a run of their own:

* WRR counts `served` for a lifetime. A tenant back from idle is served alone
  until its ratio has caught up; `CatchUpBound` is exactly that bound.
* `common.sh:29` gives `wait_for_http` a timeout. It is looked at between two calls
  of `curl`, which has none: a server that accepts and never answers holds the probe
  for ever (`CurlHangs`), and `SweepEnds` has to except that.
* The vLLM job's exit trap removes `vllm.url` whatever address it holds
  (`VllmExits`), and the file of a job that was lost ends the driver's wait for
  the new one (`SeeVllm`). The next gateway job then fails, or waits in vain for
  a dead server, and the sweep ends with an error: no wrong measurement follows.

`CloseEndsScheduler` holds with an exception that is worth knowing: if every slot
went with a request that `shutdown()` cancelled, a scheduler blocked in
`acquire()` never wakes up (a daemon thread, so the process still ends). The
other way out of an ordinary close is the exception `submit()` raises.

### Bounds

* `AsyncDispatcher`: three requests, two tenants, two models, two slots. Two
  requests can be in service while a third is queued, selected, submitted or
  blocked on `acquire()`; two share a tenant and two a model, crosswise.
* `Serving`: one slot, so that one request is in service and two wait; two
  requests of a configured tenant, one of a tenant no map names, a configured
  tenant that never sends. Costs of 40, 18 and 1 token against quanta of 16 and 8:
  DRR skips, carries over and serves. Four environments are accepted (every mode;
  a tenant named twice; the default maps; quanta that leave out the sender), four refused
  (a weight of 0, a garbled quantum of a policy not chosen, an unknown mode, a map
  that is only a comma).
* `WRRFairness`: weights 1 and 2 and an unconfigured tenant; six requests, so
  that a tenant can go idle and come back while another waits.
* `DRRFairness`: quanta 2, 3 and the default for a newcomer; costs from 1 (an
  empty prompt, an uncounted one) to 7, more than two quanta.
* `Gateway`: two chat calls and two probes on two threads and one slot: a probe
  can wait behind both calls, one call in the policy behind the other, and the
  probes can hold both threads. The log is
  unwritable for one of them only, so that the other's record can be relied on.
* `VLLMClient`: streams of up to four lines: text, usage, noise and a break.
* `MeasuredRun`: two gateways, of the same scheduler or of two, three requests
  for the first and one for the second, two tenants and two models, one to three
  workers; each request may fail, raise, or lose its caller, and the first
  gateway may die at any time. One tenant's name is not ASCII.
* `LoadGenerator`: two workers; five requests in a closed loop, more than a cycle
  of each mix; all traces of three rows of the four kinds. The pool can fall
  behind the arrivals, and a raised send can be met first, last or in between.
* `Sweep`: two rounds, so that a gateway has a predecessor, on two nodes, so that it
  may be on the predecessor's or not; one vLLM job left by an earlier run, or its
  file, and one the sweep may submit. A gateway left running by an earlier
  experiment is in `SweepSqueue`'s instance only: with it, this one would not be
  checked in minutes. That it changes nothing is proved (`OwnNodeAnswers`, for any
  number of them).

Nothing else is bounded: every request is dispatched at most once, so the state
spaces are finite. Deadlock is not checked in runs whose system simply comes to
rest when all requests have been served.

### Fairness

* `Serving`: weak fairness of the scheduler's next step (DRR's turns included),
  of the pool as a whole (some thread that can go on does), and of `close()` once
  entered. Threads are scheduled by the operating system, `wait` has a timeout,
  and `complete()` is assumed to end. Nobody has to dispatch, to give up or to
  close. Weak fairness is enough: each of these steps stays enabled until it is
  taken, but for the lock, which DRR's loop gives back after finitely many turns.
* `LoadGenerator`: weak fairness of `main()`, of the clock, of the pool's threads,
  and of the end of each send: `requests.post` has a timeout.
* `Gateway`: weak fairness of the handlers and of the server's pool only. The
  handler's step in `future.result(timeout)` is its timeout, so chat calls are
  answered without any assumption on the scheduler, the workers or the backend.
  Nor is there one on a probe's backend call (`ProbeReturns`). The property has
  two exceptions for that: a probe in such a call for ever, and whatever waits for
  a thread while probes like that hold the whole pool for ever. It is false without
  either.
* `DRRDispatcher`: weak fairness of the loop's next turn.
* `Sweep`: weak fairness of the driver's own steps (commands return; a bounded
  loop is left by what it waits for or by `GiveUp`, and a loop without a bound only
  by what it waits for), and of the end of a load test once it runs (its time
  limit). No accident has to happen, no user to interrupt. Slurm has to start no
  job, no server to become healthy, no cancelled gateway to end. Hence the
  exceptions in the property: a load test in Slurm's queue for ever, for which
  `wait_for_job` waits, and a probe that is never over (`CurlHangs`).

## 4. What is proved

The assumptions are the named `ASSUME`s of the modules, which TLC evaluates in
every run, and the hypotheses named below; there are no others.

**`AsyncDispatcher_proofs`**: for any finite set of requests, any tenants, models,
callers that give up, and `max_concurrency` of at least 1.

* `TypeCorrect`, `SlotsConserved`, `RequestInOnePlace`, `RegistryIsExact`. `IInv`
  joins the four properties with two facts without which they are not inductive.
  `Lines`: no queue holds a request twice and a line holds only its tenant's
  requests (else taking the head would leave a copy behind). `HandAgrees`: the
  scheduler holds a request exactly at `submit` and after it crashed there (else
  `Submit` could append nothing). The steps are proved in four groups: types;
  places (most steps move nothing, each of the rest moves one request from one
  place to the next, and `shutdown()` moves a whole queue); the registry; slots.
  The bound of the semaphore's count is not preserved by the steps on their own
  types: it follows from conservation (`TypeFromSlots`).
* `StartsInOrder` (`StartOrder`), from `OrderInv`: what was selected is, from the
  front, in `_serve()`, in the pool's queue in the same order, in the scheduler's
  hand (`PoolInOrder`, `HandIsNewest`); and nothing is submitted after a
  cancellation (`CancelledAtEnd`), which is why `close()` leaves no gap.
* `OneColdRequest` (`OneColdPerModel`), from `ColdInv`: `_seen` holds exactly the
  models of the marked requests, in whatever order the threads marked them.
* `SerialTagsFollowSelection` (`TagsFollowSelection`, hypothesis
  `MaxConcurrency = 1`), from `SerialInv`: when a request is selected, all before
  it have given the slot back (`OneAtATime`, from conservation), so `_last` is the
  model of the newest one marked. With two slots the property is false
  (`ConcurrentTags`).
* `ImplementsAdmissionControl`: every behaviour maps to `AdmissionControl`. A
  request's progress is a function of its place (`ProgressByPlace`, which needs
  that it has only one); each action moves the progress of one request or none,
  but for `shutdown()`, which drops the pool's queue.

**`Serving_proofs`**: for any set of environments, policies chosen by the
environment. The dispatcher's theorems hold of *lines* of requests, one per tenant.
Under WRR and DRR the lines are the tenants' queues; under FIFO they are the
tenants' parts of its one line, which `PartOf` puts together request by request.
What a part becomes is proved first, by induction on the line: `append()` puts a
request at the end of its tenant's part and of no other (`PartAppend`), `popleft()`
takes the front of the part of whoever is at the front (`PartTail`), and who is in
the line is in a part (`PartHas`). The proof that a step of the composition is a step of
the `AsyncDispatcher` (`PolicyStep`) uses the latter's own invariant as induction
hypothesis: when WRR selects from the queue of `order[i]`, that it selects a request
of that *tenant* is `Lines`. `PolicyInv` adds the policies' parts: who waits is in the
visiting order (or `NoBest` would report an empty policy that is not), DRR's index is
inside its order, and what FIFO has selected and still holds is what arrived, in that
order. `ByTenant` is a second instance of the `AsyncDispatcher`, with its theorems.

* `PolicyInvariant`, and with it `ImplementsAsyncDispatcher`
  (`ImplementsDispatcher`, under each of the three policies); from these and the
  theorems above `EveryPolicyAdmits`, `EveryPolicyKeeps`, and `SerialTags` (again
  with `MaxConcurrency = 1`).
* `ServedInArrivalOrder` (`FirstComeFirstStarted`): FIFO's order of arrival
  survives the scheduler, the pool and `close()`, for any `max_concurrency`.

**`Gateway_proofs`**: for any chat calls, probes, tenants and models.
`ImplementsDispatcher`: whatever the handlers do, the dispatcher under them
behaves as `AsyncDispatcher`; so its theorems hold there (`DispatcherKept`).
`GatewayTypeCorrect` and `AnswersAgree` (`AnswerAgreesWithLog`) follow from
`AnswerInv`: a handler's place says what is in the log and where its `dispatch()`
is (`HandlerAgrees`), and a result that was returned is final (`ReturnedIsDone`,
from the dispatcher's registry).

**`WRRFairness_proofs`**: for any tenants, weights and requests, `FairTypeCorrect`,
`CatchUpBounded` and `SteadyTenantsShare`: a tenant is selected only when its
ratio is at most that of every backlogged one, and counts only grow. `ScanFinds`
(`ScanFindsOne`): the comparison of ratios and places is a total order on the
candidates, so a finite, non-empty set of them has exactly one least. It is
found as the candidate with fewest ahead of it, strict inclusion of finite sets
being well-founded.
`ImplementsPolicy`: WRR implements `AdmissionPolicy`.

**`DRRFairness_proofs`**: for any tenants, quanta, costs and requests,
`FairTypeCorrect`, `TokensAccounted` (`TokenBudget`), `TokensShared`
(`TokenShare`), `HeadWaitBounded` (`HeadWaitBound`). The bounds compare two
tenants; how far one may be ahead depends on which of them the index reaches
next. `TurnLead` and `WaitLead` say it for each pair of places in the order
(`Sooner`, `Lead`), and are preserved as the index moves on, wraps around, and as
a newcomer is appended. `Saving`: a head passed over has a quantum per visit in
its deficit, which does not cover it yet. `ImplementsPolicy`: DRR implements
`AdmissionPolicy`, each turn of its loop a selection or a stutter.

**`Measurement_proofs`**, the load generator: for any mixes, any traces, any number
of requests and any concurrency, `LoadTypeCorrect` (never more in flight than
`--concurrency`), `AllSendsEnd` (`ExitAfterAllSends`) and, for traces whose rows
are sorted, `ReplayInOrder` (`ReplayFollowsTrace`). `LoadInv` adds two facts: how
much has been submitted at each place of `main()` (`Places`: it fails only on a mix
it cannot parse, or when everything has ended), and that the requests begun are the
first ones submitted (`InOrder`). The order of a replay then follows from
`Timely`: nothing is submitted before it arrives. The hypothesis that traces are
sorted is needed, as `load_trace` keeps the order of the file; that
`gen-trace.py` writes them sorted is model-checked.

* `MixIsKept` (`MixKept`). `build_schedule()` joins one piece per entry of the mix;
  `Layout` says where in the schedule each piece lies, and `ScheduleShares` that a
  tenant has as many places in it as its weights add up to, and that the whole is
  as long as all weights together. The requests begun are a prefix of an endless
  repetition of the schedule: whole cycles give each tenant its share exactly
  (`SlotsOfCycles`), the rest at most once more.
* `SummaryAddsUp` (`SummaryAccounts`): the tenants of the summary divide the requests
  among them (`TenantsComplete`), so that counting by tenant and adding up is
  counting at once (`TenantsAddUp`); and nothing changes once it is written.

**`Measurement_proofs`**, the log: for any number of gateways and workloads, of
workers, requests, tenants and models, and a death at any time, all four invariants
of `MeasuredRun`. `RunInv` has five parts besides the types. `StagesInv`: only the
last gateway is at work. `StampsInv`: `dispatch_ts` is taken once, after the
gateway began, and no two are the same. `LogInv`: each request recorded has one
line in the log, and the line says what is known of the request; a line that is no
UTF-8 is what is left of a lost completion whose tenant or model is of `NonAscii`. `ColdInv`: one
request of each model that a gateway marked is tagged cold, and the tracker has
seen those models. `SerialInv`: with one worker a request is stamped before the
next is marked, so both tags follow the order of the stamps; it is what fails with
two workers (finding 1).

* `RunTypesOK` (`RunTypeOK`) and `RecordedIsAnalysed` (`AnalysedOnce`): in a log that
  can be read, `MetricsAre` shows that reading past torn lines and joining with
  receptions, also one that was torn or glued to a torn line, gives each completion
  its own metrics, once and under its own scheduler. A log that cannot be read
  gives none; that takes a completion of `NonAscii` that was being written when its
  gateway died.
* `GapsFitTheWindow` (`GapsFitWindow`): a positive gap is a number of moments without
  any of the two requests, and the moments of different switches are apart
  (`IdleApart`), since a request is dispatched before it finishes and the one
  before it was dispatched earlier still. So the sum of the gaps is the size of one
  set, which lies between the first arrival and the last finish.
* `TheTagsAgree` (`TagsAgree`): the analysis finds one cold request of each model in
  the report (`ColdOfModel`), a gateway tags one of each model it served; a map from
  the ones to the others is one to one in the direction each conjunct needs. With
  one worker, `SerialInv` carries the order of the log's stamps over to the tags.

Sums are what made these hard: `SumFunction` is a recursion over subsets, chosen by
`CHOOSE`. `SumDefined` shows that the recursion has a solution, `SumCounts` that a
sum of sizes of disjoint sets is the size of their union. Both, and the solution of
`FlattenSeq`'s recursion, are inductions written as a set of naturals that has 0
and, with each number, the next (`InductiveSet`).

**`VLLMClient_proofs`**: for any stream of lines and any metadata,
`ClientTypeCorrect` and `ResultIsStream` (`ResultReflectsStream`). `ClientInv`
says what the loop has counted and stamped against the lines read so far, and
that the request asked for a stream: without that, the unstreamed body would be
text nobody counted.

**`Sweep_proofs`**: for any number of rounds, of nodes and of gateways left from
before, with every failure and every accident.

* `TypeCorrect` and `NoneForgotten` (`NoGatewayForgotten`), from `TurnInv`: rounds
  are submitted in turn; of the ids the driver got, at most the one in
  `GATEWAY_JOB` has not been given to `scancel`; a gateway whose id it did not get
  is the last one submitted, and then the script is on its way out.
* `OwnNodeAnswers` (`OnlyNeighboursAnswer`), with one hypothesis:
  `Left \cap Unpublished = {}`, no earlier experiment has a gateway that is still to
  publish its address. Without it the property is false (disagreement 3). Nothing is assumed of Slurm, `scancel` or `squeue`.
  `MeasureInv` follows the address: gateways of earlier rounds can no longer write
  the file, as they have answered, and their load has ended or was not waited for
  (`Earlier`); so what the file holds while a round's load may read it, and what
  that load then has for its target, is the node of its own gateway (`UrlIsOwn`,
  `TargetIsOwn`); and two gateways of one node were there together, or the earlier
  had ended (`Neighbours`).

### Model-checked only

* Liveness (`EveryRequestAnswered`, `CloseEndsScheduler`, `EveryCallAnswered`,
  `SelectTerminates`, `LoadEnds`, `SweepEnds`): the provers have no fairness, no `ENABLED`.
* What the generators and parsers produce (`WeightMap`, `TraceGenerator`): finite
  computations on data, which TLC evaluates.

## 5. Not modelled, and what is left

Not modelled: the record types of `models.py` (their fields appear where they are
used), plotting, percentiles and the fairness index of the analysis, images and
copies (pure I/O), the mock backend (no state), interleaved appends of two
threads to the log file (each record is one append of one line).

Seen while reading, and not stated as properties:

* A tenant that was starved throughout has no record, hence no part in the
  analysis's fairness index: the worst unfairness is the one it cannot see.
* Cold requests and switches per tenant are counted among the tenant's own
  records; they say nothing of models another tenant had warmed.
* The latencies of failed requests are averaged with those of completed ones.
* The sweep takes a load test that failed for one that finished.
* `write_state` truncates the file before it writes the address. A reader in
  between takes an empty address, its probe fails, and the sweep or the job ends
  with an error (or submits another vLLM job, at line 40 of the script).
* A line cut inside a character at the end of the last gateway's log has the same
  effect on the analysis as between two gateways.
* `extra_body` may name another model than the one that was logged, tagged and
  queued; every model of this project takes the request's own.

Left to do: the totals of tokens and the fairness index of the analysis, by the
lemmas about sums.
