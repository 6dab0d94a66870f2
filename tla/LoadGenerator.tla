---------------------------- MODULE LoadGenerator ----------------------------
(***************************************************************************)
(* scripts/loadgen.py: main() hands every request to a thread pool, either *)
(* all at once (closed loop: the pool's size is the concurrency) or each   *)
(* at its arrival time (a trace), then collects the results as they come   *)
(* and writes one summary.  send() returns a status or raises; what it     *)
(* raised is raised again where main() collects it, inside the executor's  *)
(* `with` block, which waits for everything submitted before it lets the   *)
(* exception out.                                                          *)
(*                                                                         *)
(* Requests are numbered from 1.  Latencies, rates and prompts are left    *)
(* out.  The gateway is external: a send ends when it ends.                *)
(***************************************************************************)
EXTENDS WeightMap, TraceGenerator

CONSTANTS
  Mixes,        \* the --tenants specs considered
  Replayed,     \* the traces considered
  ClosedCount,  \* --requests
  Concurrency,  \* --concurrency
  NoSummary

ASSUME LoadAssumption ==
  /\ \A mix \in Mixes : /\ mix \in Seq(ToSet(mix))
                         /\ \A part \in ToSet(mix) : part.value \in {Null, Garbled} \cup Int
  /\ \A r \in Replayed : r # <<>> /\ Len(r) \in Nat
  /\ {ClosedCount, Concurrency} \subseteq Nat \ {0}

VARIABLES
  job,        \* the command line: a mix, or the rows of a trace
  main,       \* where main() is
  now,        \* the time since t0, as far as the replay looks at it
  send,       \* what became of each request submitted so far
  collected,  \* the futures whose results _run() has taken
  summary     \* what was written

vars == <<job, main, now, send, collected, summary>>

Replay == job.mode = "trace"
Mix == ParseTenantMix(job.mix)
Count == IF Replay THEN Len(job.rows) ELSE ClosedCount

TenantAt(i) ==
  IF Replay THEN job.rows[i].tenant
  ELSE LET schedule == BuildSchedule(Mix) IN schedule[((i - 1) % Len(schedule)) + 1]

Arrival(i) == IF Replay THEN job.rows[i].arrival ELSE 0

MaxCount == Max({ClosedCount} \cup {Len(r) : r \in Replayed})

Submitted == 1..Len(send)
Are(S) == {i \in Submitted : send[i] \in S}
Ended == Are({"ok", "error", "raised"})
Begun == Are({"sending"}) \cup Ended

TypeOK ==
  /\ main \in {"parse", "submit", "collect", "unwind", "written", "failed"}
  /\ now \in Nat
  /\ send \in Seq({"queued", "sending", "ok", "error", "raised"})
  /\ Len(send) <= Count /\ Cardinality(Are({"sending"})) <= Concurrency
  /\ collected \subseteq Ended

Init ==
  /\ job \in [mode : {"closed"}, mix : Mixes, rows : {<<>>}]
               \cup [mode : {"trace"}, mix : {<<>>}, rows : Replayed]
  /\ main = "parse" /\ now = 0
  /\ send = <<>> /\ collected = {} /\ summary = NoSummary
-----------------------------------------------------------------------------
Goto(from, to) == main = from /\ main' = to

Parse ==
  /\ Goto("parse", IF Replay \/ Accepted(job.mix) THEN "submit" ELSE "failed")
  /\ UNCHANGED <<job, now, send, collected, summary>>

\* Time passes; nothing looks at it after the last arrival.
Tick ==
  /\ \E i \in 1..Count : now < Arrival(i)
  /\ now' = now + 1
  /\ UNCHANGED <<job, main, send, collected, summary>>

\* The trace replayed without the sleep.
SubmitAtOnce ==
  /\ Len(send) < Count
  /\ main = "submit" /\ UNCHANGED main
  /\ send' = Append(send, "queued")
  /\ UNCHANGED <<job, now, collected, summary>>

\* One turn of the submission loop, after time.sleep() until the arrival.
Submit ==
  /\ Len(send) < Count
  /\ now >= Arrival(Len(send) + 1)
  /\ main = "submit" /\ UNCHANGED main
  /\ send' = Append(send, "queued")
  /\ UNCHANGED <<job, now, collected, summary>>

BeginCollect ==
  /\ Len(send) = Count
  /\ Goto("submit", "collect")
  /\ UNCHANGED <<job, now, send, collected, summary>>

\* The request at the head of the executor's queue.
IsNext(i) == send[i] = "queued" /\ \A j \in 1..(i - 1) : send[j] # "queued"

\* A thread for every request.
StartAtOnce ==
  /\ \E i \in Submitted : IsNext(i) /\ send' = [send EXCEPT ![i] = "sending"]
  /\ UNCHANGED <<job, main, now, collected, summary>>

\* A worker lost with every send that raises.
StartIfAlive ==
  /\ Cardinality(Are({"sending", "raised"})) < Concurrency
  /\ \E i \in Submitted : IsNext(i) /\ send' = [send EXCEPT ![i] = "sending"]
  /\ UNCHANGED <<job, main, now, collected, summary>>

\* The executor's threads take the requests in the order submitted.
StartSend ==
  /\ Cardinality(Are({"sending"})) < Concurrency
  /\ \E i \in Submitted : IsNext(i) /\ send' = [send EXCEPT ![i] = "sending"]
  /\ UNCHANGED <<job, main, now, collected, summary>>

\* A status of 200, another status, or an exception of requests.post().
EndSend(i) ==
  /\ i \in Are({"sending"})
  /\ \E outcome \in {"ok", "error", "raised"} : send' = [send EXCEPT ![i] = outcome]
  /\ UNCHANGED <<job, main, now, collected, summary>>

\* as_completed() yields any future that is done; result() returns ...
Collect(i) ==
  /\ main = "collect" /\ UNCHANGED main
  /\ i \in Are({"ok", "error"}) \ collected
  /\ collected' = collected \cup {i}
  /\ UNCHANGED <<job, now, send, summary>>

\* ... or raises, and the exception waits for the `with` block to end.
CollectRaises(i) ==
  /\ i \in Are({"raised"})
  /\ Goto("collect", "unwind")
  /\ UNCHANGED <<job, now, send, collected, summary>>

\* The executor abandoned without shutdown(wait=True).
UnwindAtOnce ==
  /\ Goto("unwind", "failed")
  /\ UNCHANGED <<job, now, send, collected, summary>>

Unwind ==
  /\ Ended = Submitted
  /\ Goto("unwind", "failed")
  /\ UNCHANGED <<job, now, send, collected, summary>>

\* tenant_stats(), by what _run() collected for the tenant.
Stats(S) == [requests |-> Cardinality(S), ok |-> Cardinality(S \cap Are({"ok"})),
             failed |-> Cardinality(S) - Cardinality(S \cap Are({"ok"}))]

\* The tenants reported on: those given weights, or those in the trace.
Tenants ==
  IF Replay THEN [t \in {TenantAt(i) : i \in 1..Count} |->
                    Cardinality({i \in 1..Count : TenantAt(i) = t})]
  ELSE ParseWeightMap(job.mix)

\* The summary written as soon as every request has been sent.
WriteEarly ==
  /\ Are({"queued"}) = {}
  /\ Goto("collect", "written")
  /\ summary' = [total |-> Stats(collected), tenants |-> Tenants,
                 per_tenant |-> [t \in DOMAIN Tenants |->
                                   Stats({i \in collected : TenantAt(i) = t})]]
  /\ UNCHANGED <<job, now, send, collected>>

WriteSummary ==
  /\ collected = 1..Count
  /\ Goto("collect", "written")
  /\ summary' = [total |-> Stats(collected), tenants |-> Tenants,
                 per_tenant |-> [t \in DOMAIN Tenants |->
                                   Stats({i \in collected : TenantAt(i) = t})]]
  /\ UNCHANGED <<job, now, send, collected>>

MainStep ==
  \/ Parse \/ Submit \/ BeginCollect \/ Unwind \/ WriteSummary
  \/ \E i \in Submitted : Collect(i) \/ CollectRaises(i)

Next == MainStep \/ Tick \/ StartSend \/ \E i \in Submitted : EndSend(i)

Spec == Init /\ [][Next]_vars

\* Threads run, time passes, and requests.post() ends: it has a timeout, and
\* the gateway answers in one piece.
Fairness ==
  /\ WF_vars(MainStep) /\ WF_vars(Tick) /\ WF_vars(StartSend)
  /\ \A i \in 1..MaxCount : WF_vars(EndSend(i))

FairSpec == Spec /\ Fairness
-----------------------------------------------------------------------------
Valid == Replay \/ Accepted(job.mix)

Exited == main \in {"written", "failed"}

(* "N requests at fixed concurrency" (loadgen.py:5): when the program ends *)
(* every request has been sent and has ended, also when a send raised and  *)
(* the summary is lost: no load is left in flight for whoever comes next.  *)
ExitAfterAllSends == Exited /\ Valid => Ended = 1..Count

(* A summary counts every request once, in the totals and by tenant, and   *)
(* its tenants are those that sent: a tenant named twice in the mix too.   *)
SummaryAccounts ==
  summary # NoSummary =>
    /\ summary.total = Stats(1..Count)
    /\ \A field \in {"requests", "ok", "failed"} :
         SumFunction([t \in DOMAIN summary.per_tenant |-> summary.per_tenant[t][field]])
           = summary.total[field]
    /\ Replay => \A t \in DOMAIN summary.tenants :
                   summary.tenants[t] = summary.per_tenant[t].requests

\* What a mix gives a tenant, and what it gives to all of them.
Share(mix, t) == SumFunction([j \in Positions(mix, t) |-> ValueOf(mix[j])])
Cycle(mix) == SumFunction([j \in DOMAIN mix |-> ValueOf(mix[j])])

(* "Expand a weighted tenant mix into a deterministic round-robin          *)
(* schedule" (loadgen.py:63): at any time in a closed loop, each tenant    *)
(* has begun its weight's share of the requests begun, up to one cycle.    *)
MixKept ==
  Valid /\ ~ Replay =>
    \A t \in Keys(job.mix) :
      LET k == Cardinality(Begun)
          begun == Cardinality({i \in Begun : TenantAt(i) = t})
      IN  /\ (k \div Cycle(job.mix)) * Share(job.mix, t) <= begun
          /\ begun <= ((k + Cycle(job.mix) - 1) \div Cycle(job.mix)) * Share(job.mix, t)

(* "replay an arrival-driven JSONL trace" (loadgen.py:6): no request is    *)
(* sent before its arrival, nor before one that arrives earlier, however   *)
(* far the pool has fallen behind.                                         *)
ReplayFollowsTrace ==
  Replay => \A i \in Begun :
    /\ Arrival(i) <= now
    /\ \A j \in 1..Count : Arrival(j) < Arrival(i) => j \in Begun

(* The generator ends, whatever sends raise: no worker and no future is    *)
(* waited for in vain.                                                     *)
LoadEnds == <> Exited
=============================================================================
