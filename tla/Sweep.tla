-------------------------------- MODULE Sweep --------------------------------
(***************************************************************************)
(* scripts/run-sweep.sh and the Slurm jobs it drives (scripts/slurm/).     *)
(* The driver and the jobs run on different nodes and know each other only *)
(* by two files under run/: vllm.url and gateway.url.  Jobs start when     *)
(* Slurm lets them, end at their time limit or when cancelled, and may be  *)
(* lost with their node, in which case no exit trap runs.                  *)
(*                                                                         *)
(* Every command that reads or writes a file, probes a server or talks to  *)
(* Slurm is a step of its own.  Slurm is external: a job is an element of  *)
(* its queue until Slurm starts it.                                        *)
(***************************************************************************)
EXTENDS Integers, FiniteSets

CONSTANTS
  Rounds,          \* the number of scheduler x concurrency pairs
  Leftovers,       \* how many gateways earlier experiments have submitted
  Left,            \* the states in which these may be when the sweep starts
  Nodes,           \* where gateways run; a gateway's address is its node
  OldVllm,         \* the vLLM job of an earlier run
  NewVllm,         \* the one this sweep submits, if it does
  None,            \* an empty variable, a file that does not exist
  MayShareNode,    \* Slurm may start a gateway on a node where one still runs
  SqueueMayFail    \* squeue may report an error

\* A gateway job that has yet to write gateway.url, and one that has done so or
\* never will.
Unpublished == {"pending", "reading", "waiting", "ready"}
Published == {"published", "serving", "ended"}

ASSUME SweepAssumption ==
  /\ Rounds \in Nat \ {0} /\ Leftovers \in Nat
  /\ Left \subseteq Unpublished \cup Published
  /\ OldVllm # NewVllm
  /\ None \notin Nodes \cup {OldVllm, NewVllm} \cup 1..Rounds
  /\ {MayShareNode, SqueueMayFail} \subseteq BOOLEAN

VARIABLES
  driver,      \* where run-sweep.sh is
  exiting,     \* its EXIT trap runs
  round,       \* which pair it is at
  job,         \* GATEWAY_JOB
  addr,        \* the address it is probing, None when it is not
  vllm,        \* the state of each vLLM job
  vllmUrl,     \* run/vllm.url, by the job whose address it holds
  gateway,     \* the state of each gateway job
  node,        \* where the gateway jobs run
  backend,     \* VLLM_URL in each gateway job
  gatewayUrl,  \* run/gateway.url
  load,        \* the state of each round's load test job
  target,      \* GATEWAY_URL in each load test job
  \* History:
  known,       \* the rounds whose gateway's id was in GATEWAY_JOB
  given,       \* the rounds whose gateway was given to scancel
  beside,      \* the gateways alive on each gateway's node when it started
  via,         \* the gateways that answered each load test
  unwaited     \* the rounds whose load test the driver did not wait for

driverVars == <<driver, exiting, round, job, addr, known, given, unwaited>>
vllmVars == <<vllm, vllmUrl>>
gatewayVars == <<gateway, node, backend, beside>>
loadVars == <<load, target, via>>
vars == <<driverVars, vllmVars, gatewayVars, gatewayUrl, loadVars>>

Vllms == {OldVllm, NewVllm}
AllRounds == 1..Rounds
Leftover == (1 - Leftovers)..0
Gateways == (1 - Leftovers)..Rounds

Up == {"starting", "healthy", "serving"}
Held == {"reading", "waiting", "ready", "published", "serving"}

Stopping == {"cancel", "clear", "remove"}
Probing == {"probe", "probe_gateway"}
Body == {"check", "submit", "await_vllm", "start", "assign", "await_url", "load",
         "await_load", "stuck"} \cup Probing \cup Stopping

DriverTypes ==
  /\ driver \in Body \cup {"ended"}
  /\ exiting \in BOOLEAN /\ (driver = "ended" => exiting)
  /\ exiting => driver \in Stopping \cup {"ended"}
  /\ round \in 1..(Rounds + 1)
  /\ job \in AllRounds \cup {None}
  /\ addr \in Vllms \cup Nodes \cup {None}
  /\ driver \in Probing <=> addr # None
  /\ known \subseteq AllRounds /\ given \subseteq AllRounds /\ unwaited \subseteq AllRounds

JobTypes ==
  /\ vllm \in [Vllms -> {"none", "pending", "ended"} \cup Up]
  /\ vllmUrl \in Vllms \cup {None}
  /\ gateway \in [Gateways -> {"none"} \cup Unpublished \cup Published]
  /\ node \in [Gateways -> Nodes \cup {None}]
  /\ backend \in [Gateways -> Vllms \cup {None}]
  /\ \A g \in Gateways : gateway[g] \in Held \ {"reading"} => backend[g] # None
  /\ beside \in [Gateways -> SUBSET Gateways]
  /\ gatewayUrl \in Nodes \cup {None}
  /\ load \in [AllRounds -> {"none", "pending", "waiting", "running", "ended"}]
  /\ target \in [AllRounds -> Nodes \cup {None}]
  /\ via \in [AllRounds -> SUBSET Gateways]

TypeOK == DriverTypes /\ JobTypes

\* The gateways that answer at a node, and those that hold some of it.
ServingAt(n) == {g \in Gateways : gateway[g] = "serving" /\ node[g] = n}
Occupants(n) == {g \in Gateways : gateway[g] \in Held /\ node[g] = n}

\* What earlier experiments may leave: no server, or one, or the file of a lost
\* one; gateways (run-experiment.sh leaves its own running), no two at one
\* port; gateway.url.
Init ==
  /\ driver = "check" /\ exiting = FALSE /\ round = 1 /\ job = None /\ addr = None
  /\ \E s \in {"ended", "serving"} : vllm = [j \in Vllms |-> IF j = OldVllm THEN s ELSE "none"]
  /\ vllmUrl \in {OldVllm, None} /\ (vllm[OldVllm] = "serving" => vllmUrl = OldVllm)
  /\ \E old \in [Leftover -> Left], place \in [Leftover -> Nodes] :
       /\ gateway = [g \in Gateways |-> IF g \in Leftover THEN old[g] ELSE "none"]
       /\ node = [g \in Gateways |->
                    IF g \in Leftover /\ old[g] # "pending" THEN place[g] ELSE None]
       /\ backend = [g \in Gateways |->
                       IF g \in Leftover /\ old[g] \notin {"pending", "reading", "ended"}
                         THEN OldVllm ELSE None]
       /\ gatewayUrl \in {None} \cup {place[g] : g \in {h \in Leftover : old[h] \in Published}}
  /\ \A n \in Nodes : Cardinality(ServingAt(n)) <= 1
  /\ load = [l \in AllRounds |-> "none"]
  /\ target = [l \in AllRounds |-> None]
  /\ known = {} /\ given = {} /\ unwaited = {}
  /\ beside = [g \in Gateways |-> {}]
  /\ via = [l \in AllRounds |-> {}]
-----------------------------------------------------------------------------
\* serve-vllm.sbatch.

VllmStep(j, from, to) == vllm[j] \in from /\ vllm' = [vllm EXCEPT ![j] = to]

UnchangedByVllm == UNCHANGED <<driverVars, gatewayVars, gatewayUrl, loadVars>>

VllmStarts(j) == VllmStep(j, {"pending"}, "starting") /\ UNCHANGED vllmUrl /\ UnchangedByVllm

VllmHealthy(j) == VllmStep(j, {"starting"}, "healthy") /\ UNCHANGED vllmUrl /\ UnchangedByVllm

VllmPublishes(j) == VllmStep(j, {"healthy"}, "serving") /\ vllmUrl' = j /\ UnchangedByVllm

\* Not ready in 900 s, the server gone, the time limit: the EXIT trap removes
\* the file, whosever address it holds by now.
VllmExits(j) == VllmStep(j, Up, "ended") /\ vllmUrl' = None /\ UnchangedByVllm

\* The node fails, or Slurm has to kill the job: no trap runs, the file stays.
VllmLost(j) == VllmStep(j, Up, "ended") /\ UNCHANGED vllmUrl /\ UnchangedByVllm

VllmNext(j) == VllmStarts(j) \/ VllmHealthy(j) \/ VllmPublishes(j) \/ VllmExits(j) \/ VllmLost(j)
-----------------------------------------------------------------------------
\* run-gateway.sbatch.

GatewayStep(g, from, to) == gateway[g] \in from /\ gateway' = [gateway EXCEPT ![g] = to]

UnchangedByGateway == UNCHANGED <<driverVars, vllmVars, loadVars>>

\* The job asks for four cores and some memory, not for a node of its own.
GatewayStarts(g) ==
  /\ GatewayStep(g, {"pending"}, "reading")
  /\ \E n \in Nodes :
       /\ MayShareNode \/ Occupants(n) = {}
       /\ node' = [node EXCEPT ![g] = n]
       /\ beside' = [beside EXCEPT ![g] = Occupants(n)]
  /\ UNCHANGED <<backend, gatewayUrl>> /\ UnchangedByGateway

\* The address used without looking whether there is one.
GatewayReadsBlindly(g) ==
  /\ GatewayStep(g, {"reading"}, "waiting")
  /\ backend' = [backend EXCEPT ![g] = vllmUrl]
  /\ UNCHANGED <<node, beside, gatewayUrl>> /\ UnchangedByGateway

GatewayReadsUrl(g) ==
  /\ GatewayStep(g, {"reading"}, IF vllmUrl = None THEN "ended" ELSE "waiting")
  /\ backend' = [backend EXCEPT ![g] = vllmUrl]
  /\ UNCHANGED <<node, beside, gatewayUrl>> /\ UnchangedByGateway

GatewaySeesBackend(g) ==
  /\ GatewayStep(g, {"waiting"}, "ready")
  /\ vllm[backend[g]] \in {"healthy", "serving"}
  /\ UNCHANGED <<node, backend, beside, gatewayUrl>> /\ UnchangedByGateway

GatewayPublishes(g) ==
  /\ GatewayStep(g, {"ready"}, "published")
  /\ gatewayUrl' = node[g]
  /\ UNCHANGED <<node, backend, beside>> /\ UnchangedByGateway

\* uvicorn binds the port, unless a gateway on this node has it.
GatewayServes(g) ==
  /\ GatewayStep(g, {"published"}, "serving")
  /\ ServingAt(node[g]) = {}
  /\ UNCHANGED <<node, backend, beside, gatewayUrl>> /\ UnchangedByGateway

\* The port is taken, the backend not healthy in 300 s, the job cancelled, lost
\* or at its time limit.  Nothing removes gateway.url.
GatewayEnds(g) ==
  /\ GatewayStep(g, Held \cup {"pending"}, "ended")
  /\ backend' = [backend EXCEPT ![g] = None]
  /\ UNCHANGED <<node, beside, gatewayUrl>> /\ UnchangedByGateway

GatewayNext(g) ==
  \/ GatewayStarts(g) \/ GatewayReadsUrl(g) \/ GatewaySeesBackend(g)
  \/ GatewayPublishes(g) \/ GatewayServes(g) \/ GatewayEnds(g)
-----------------------------------------------------------------------------
\* run-loadgen.sbatch.

LoadStep(l, from, to) == load[l] \in from /\ load' = [load EXCEPT ![l] = to]

UnchangedByLoad == UNCHANGED <<driverVars, vllmVars, gatewayVars, gatewayUrl>>

LoadReadsUrl(l) ==
  /\ LoadStep(l, {"pending"}, IF gatewayUrl = None THEN "ended" ELSE "waiting")
  /\ target' = [target EXCEPT ![l] = gatewayUrl]
  /\ UNCHANGED via /\ UnchangedByLoad

\* The probe, and then each request, is answered by whoever has the port.
LoadAsks(l) ==
  /\ LoadStep(l, {"waiting", "running"}, "running")
  /\ ServingAt(target[l]) # {}
  /\ via' = [via EXCEPT ![l] = @ \cup ServingAt(target[l])]
  /\ UNCHANGED target /\ UnchangedByLoad

\* Finished, no answer in 300 s, or the time limit.
LoadEnds(l) ==
  /\ LoadStep(l, {"waiting", "running"}, "ended")
  /\ target' = [target EXCEPT ![l] = None]
  /\ UNCHANGED via /\ UnchangedByLoad

LoadNext(l) == LoadReadsUrl(l) \/ LoadAsks(l) \/ LoadEnds(l)
-----------------------------------------------------------------------------
\* run-sweep.sh: vLLM.

Goto(from, to) == driver = from /\ driver' = to

UnchangedByDriver == UNCHANGED <<vllmUrl, gatewayVars, target, via>>

\* Steps that touch nothing but the driver's own variables.
Idle == UNCHANGED <<vllm, gateway, gatewayUrl, load>> /\ UnchangedByDriver

Remembers == UNCHANGED <<job, known, given, unwaited>>

\* The address is read once, and probed again and again.
CheckVllm ==
  /\ Goto("check", IF vllmUrl = None THEN "submit" ELSE "probe")
  /\ addr' = vllmUrl
  /\ UNCHANGED <<exiting, round>> /\ Remembers /\ Idle

\* An answer within 5 s, or none: a busy server may be too slow.
ProbeVllm ==
  /\ \/ Goto("probe", "submit")
     \/ Goto("probe", "cancel") /\ vllm[addr] \in {"healthy", "serving"}
  /\ addr' = None
  /\ UNCHANGED <<exiting, round>> /\ Remembers /\ Idle

SubmitVllm ==
  /\ Goto("submit", "await_vllm")
  /\ vllm' = [vllm EXCEPT ![NewVllm] = "pending"]
  /\ UNCHANGED <<exiting, round, addr, vllmUrl, gatewayVars, gatewayUrl, loadVars>> /\ Remembers

SeeVllm ==
  /\ vllmUrl # None /\ Goto("await_vllm", "cancel")
  /\ UNCHANGED <<exiting, round, addr>> /\ Remembers /\ Idle
-----------------------------------------------------------------------------
\* stop_gateway, before each round, after the last and in the EXIT trap.  scancel
\* asks for the end of a job, which may be long in coming; when it fails
\* (`|| true`) the job runs on.  Either way the driver forgets the job.

ScancelGateway ==
  /\ Goto("cancel", "clear") /\ job # None
  /\ given' = given \cup {job}
  /\ UNCHANGED <<exiting, round, job, addr, known, unwaited>> /\ Idle

NoGatewayToCancel ==
  /\ job = None /\ Goto("cancel", "remove")
  /\ UNCHANGED <<exiting, round, addr>> /\ Remembers /\ Idle

ClearJob ==
  /\ Goto("clear", "remove")
  /\ job' = None
  /\ UNCHANGED <<exiting, round, addr, known, given, unwaited>> /\ Idle

KeepUrl == UNCHANGED gatewayUrl

RemoveUrl == gatewayUrl' = None

\* The end of the script runs the trap as well.
RemoveGatewayUrl ==
  /\ Goto("remove", IF exiting THEN "ended" ELSE IF round > Rounds THEN "cancel" ELSE "start")
  /\ exiting' = (round > Rounds \/ exiting)
  /\ RemoveUrl
  /\ UNCHANGED <<round, addr, vllmVars, gatewayVars, loadVars>> /\ Remembers
-----------------------------------------------------------------------------
\* A round.

\* Slurm accepts the job; sbatch has yet to print its id and to return.
SubmitGateway ==
  /\ Goto("start", "assign")
  /\ gateway' = [gateway EXCEPT ![round] = "pending"]
  /\ UNCHANGED <<exiting, round, addr, vllmVars, node, backend, beside, gatewayUrl, loadVars>>
  /\ Remembers

AssignJob ==
  /\ Goto("assign", "await_url")
  /\ job' = round /\ known' = known \cup {round}
  /\ UNCHANGED <<exiting, round, addr, given, unwaited>> /\ Idle

SeeGatewayUrl ==
  /\ gatewayUrl # None /\ Goto("await_url", "probe_gateway")
  /\ addr' = gatewayUrl
  /\ UNCHANGED <<exiting, round>> /\ Remembers /\ Idle

ProbeGateway ==
  /\ ServingAt(addr) # {} /\ Goto("probe_gateway", "load")
  /\ addr' = None
  /\ UNCHANGED <<exiting, round>> /\ Remembers /\ Idle

SubmitLoad ==
  /\ Goto("load", "await_load")
  /\ load' = [load EXCEPT ![round] = "pending"]
  /\ UNCHANGED <<exiting, round, addr, vllmVars, gatewayVars, gatewayUrl, target, via>>
  /\ Remembers

\* squeue lists the job no more.
LoadFinished ==
  /\ Goto("await_load", "cancel") /\ load[round] = "ended"
  /\ round' = round + 1
  /\ UNCHANGED <<exiting, addr>> /\ Remembers /\ Idle

\* An error of squeue looks the same.
SqueueFails ==
  /\ Goto("await_load", "cancel") /\ SqueueMayFail /\ load[round] # "ended"
  /\ round' = round + 1 /\ unwaited' = unwaited \cup {round}
  /\ UNCHANGED <<exiting, addr, job, known, given>> /\ Idle
-----------------------------------------------------------------------------
\* The ways out.

\* Where the script itself may exit 1: an error of sbatch, also after Slurm has
\* accepted the job; a loop's bound.  wait_for_job has none.
Bounded == {"submit", "await_vllm", "start", "assign", "await_url", "probe_gateway", "load"}

\* Loops without a bound.
NeverGiveUp == FALSE

\* An exit without the trap.
GiveUpAtOnce ==
  /\ driver \in Bounded /\ driver' = "ended" /\ exiting' = TRUE /\ addr' = None
  /\ UNCHANGED round /\ Remembers /\ Idle

GiveUp ==
  /\ driver \in Bounded /\ driver' = "cancel" /\ exiting' = TRUE /\ addr' = None
  /\ UNCHANGED round /\ Remembers /\ Idle

\* A signal that runs the trap, at any command.  One that does not, a second one,
\* or the end of the login node is a driver that takes no further step.
Interrupt ==
  /\ driver \in Body /\ ~ exiting /\ driver' = "cancel" /\ exiting' = TRUE /\ addr' = None
  /\ UNCHANGED round /\ Remembers /\ Idle

\* wait_for_http looks at its deadline between two calls of curl, which has no
\* limit: a server that takes the connection and never answers holds it.
CurlHangs ==
  /\ \/ driver = "probe" /\ vllm[addr] \in Up
     \/ driver = "probe_gateway" /\ ServingAt(addr) # {}
  /\ driver' = "stuck" /\ addr' = None
  /\ UNCHANGED <<exiting, round>> /\ Remembers /\ Idle

DriverStep ==
  \/ CheckVllm \/ ProbeVllm \/ SubmitVllm \/ SeeVllm
  \/ ScancelGateway \/ NoGatewayToCancel \/ ClearJob \/ RemoveGatewayUrl
  \/ SubmitGateway \/ AssignJob \/ SeeGatewayUrl \/ ProbeGateway \/ SubmitLoad \/ LoadFinished
  \/ GiveUp

Accident == SqueueFails \/ Interrupt \/ CurlHangs

Next ==
  \/ DriverStep
  \/ Accident
  \/ \E j \in Vllms : VllmNext(j)
  \/ \E g \in Gateways : GatewayNext(g)
  \/ \E l \in AllRounds : LoadNext(l)

Spec == Init /\ [][Next]_vars

\* The script's commands return, and Slurm ends a load test that it has started
\* (its time limit).  Slurm has to start nothing, no server to become healthy,
\* no gateway to end, and no accident to happen.
Fairness ==
  /\ WF_vars(DriverStep)
  /\ \A l \in AllRounds : WF_vars(LoadEnds(l))

FairSpec == Spec /\ Fairness
-----------------------------------------------------------------------------
(* "Each iteration submits a fresh gateway with the chosen scheduler, runs *)
(* the load generator, waits for it to finish, then moves on"              *)
(* (run-sweep.sh:9-11): what a load test measures is the gateway, and so   *)
(* the scheduler, of its own round.                                        *)
MeasuresOwnGateway == \A l \in AllRounds : via[l] \subseteq {l}

(* What the code does ensure, wherever Slurm puts the gateways and         *)
(* whatever fails, unless an earlier experiment left a gateway that is yet *)
(* to write gateway.url: a load test that the driver waited for is         *)
(* answered by the gateway of its own round, or else by one that was alive *)
(* on that gateway's node when it started.                                 *)
OnlyNeighboursAnswer ==
  \A l \in AllRounds \ unwaited : via[l] \subseteq {l} \cup beside[l]

(* stop_gateway and "trap stop_gateway EXIT" (run-sweep.sh:30-37): at no   *)
(* time has more than one gateway of the sweep escaped scancel, and when   *)
(* the script has ended by itself, by an error or by a signal none has     *)
(* whose id it ever got; if Slurm accepted one whose id was lost on the    *)
(* way, it is the last.                                                    *)
Submitted == {g \in AllRounds : gateway[g] # "none"}

NoGatewayForgotten ==
  /\ \A g, h \in Submitted \ given : g = h
  /\ driver = "ended" => known \subseteq given /\ Submitted \ known \subseteq {round}

(* The sweep ends, with results or with an error, also if no server ever   *)
(* becomes healthy and no gateway ever starts; unless Slurm never starts a *)
(* load test, for which wait_for_job waits without a bound, or a server    *)
(* takes a probe's connection and never answers.                           *)
SweepEnds ==
  \/ <>(driver \in {"ended", "stuck"})
  \/ <>[](driver = "await_load" /\ load[round] = "pending")
=============================================================================
