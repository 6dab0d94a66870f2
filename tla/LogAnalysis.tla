----------------------------- MODULE LogAnalysis -----------------------------
(***************************************************************************)
(* scripts/analyze.py: what it computes from a log.  A list that the code  *)
(* filters out of the log is a function here, from the places of its       *)
(* elements in the log, so that their order is kept.  Means, percentiles   *)
(* and token counts are left out: they describe the sets of requests and   *)
(* gaps that are computed here.                                            *)
(***************************************************************************)
EXTENDS Integers, Sequences, FiniteSetsExt, Functions

\* A text file is decoded as its lines are read, outside load_events()' `try`:
\* a line that is no UTF-8 raises there, and analyze() ends without a report.
Readable(lines) == \A i \in DOMAIN lines : lines[i].event # "undecodable"

\* Reading that ends at the first line that is no JSON.
load_until_torn(lines) ==
  Restrict(lines, {i \in DOMAIN lines :
                     Readable(lines) /\ \A j \in 1..i : lines[j].event # "torn"})

\* load_events() passes over every line that is no JSON.
load_events(lines) ==
  Restrict(lines, {i \in DOMAIN lines : Readable(lines) /\ lines[i].event # "torn"})

\* {**e, **c}
Merged(e, c) ==
  [field \in DOMAIN e \cup DOMAIN c |-> IF field \in DOMAIN c THEN c[field] ELSE e[field]]

\* Every completion, with what its reception, if there is one, adds to it.
join_requests(events) ==
  LET Of(kind) == {i \in DOMAIN events : events[i].event = kind}
      received(c) == {i \in Of("request_received") : events[i].request = c.request}
      joined(c) == IF received(c) = {} THEN c ELSE Merged(events[Max(received(c))], c)
  IN  [i \in Of("request_completed") |-> joined(events[i])]

request_metrics(rec) ==
  [tenant |-> rec.tenant, scheduler |-> rec.scheduler, model |-> rec.model,
   arrival |-> rec.arrival, dispatch |-> rec.dispatch, finish |-> rec.finish,
   latency |-> rec.finish - rec.arrival, queue_delay |-> rec.dispatch - rec.arrival,
   service_time |-> rec.finish - rec.dispatch]

Metrics(lines) ==
  LET joined == join_requests(load_events(lines))
  IN  [i \in DOMAIN joined |-> request_metrics(joined[i])]

\* analyze() reports on the metrics of each scheduler, and of each of its tenants.
OfScheduler(m, s) == Restrict(m, {i \in DOMAIN m : m[i].scheduler = s})
OfTenant(m, t) == Restrict(m, {i \in DOMAIN m : m[i].tenant = t})

\* cold_switch_stats().

\* The order in which they were written.
BeforeInLog(m, i, j) == i < j

\* "by dispatch time"; sorted() keeps the order of those with the same.
Before(m, i, j) ==
  \/ m[i].dispatch < m[j].dispatch
  \/ m[i].dispatch = m[j].dispatch /\ i < j

Previous(m, i, j) ==
  /\ Before(m, i, j)
  /\ \A k \in DOMAIN m : ~ (Before(m, i, k) /\ Before(m, k, j))

\* The model differs from the previous one only.
NewSincePrevious(m, i) == \A j \in DOMAIN m : Previous(m, j, i) => m[j].model # m[i].model

FirstOfModel(m, i) == \A j \in DOMAIN m : Before(m, j, i) => m[j].model # m[i].model

Cold(m) == {i \in DOMAIN m : FirstOfModel(m, i)}

Switches(m) ==
  {p \in (DOMAIN m) \X (DOMAIN m) : Previous(m, p[1], p[2]) /\ m[p[1]].model # m[p[2]].model}

\* The times swapped: from the first dispatch to the second finish.
SpanOfBoth(m, p) == Max({0, m[p[2]].finish - m[p[1]].dispatch})

SwitchGap(m, p) == Max({0, m[p[2]].dispatch - m[p[1]].finish})

GapTotal(m) == SumFunction([p \in Switches(m) |-> SwitchGap(m, p)])

\* summarize().
Window(m) ==
  IF DOMAIN m = {} THEN 0
  ELSE Max({m[i].finish : i \in DOMAIN m}) - Min({m[i].arrival : i \in DOMAIN m})
=============================================================================
