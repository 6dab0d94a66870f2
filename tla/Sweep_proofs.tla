----------------------------- MODULE Sweep_proofs -----------------------------
(***************************************************************************)
(* Proofs about run-sweep.sh and its Slurm jobs, for any number of rounds, *)
(* of nodes and of gateways left by earlier experiments: no gateway whose  *)
(* id the driver got escapes scancel, and a load test that was waited for  *)
(* is answered by its own gateway or one that shares its node.             *)
(***************************************************************************)
EXTENDS Sweep, TLAPS

\* A round is at work between the removal of gateway.url and its load's end.
InRound == {"start", "assign", "await_url", "probe_gateway", "load", "await_load"}

RoundExists == driver \in InRound => round <= Rounds

\* Rounds are submitted in turn.  Of the ids the driver got, at most the one in
\* GATEWAY_JOB has not been given to scancel; an id it did not get is the last
\* round's, and then GATEWAY_JOB is empty.
InTurn ==
  /\ \A g \in Submitted : g <= round
  /\ known \subseteq Submitted /\ known \subseteq given \cup {job}
  /\ Submitted \ known \subseteq {round}
  /\ Submitted \subseteq known \/ job = None
  /\ ~ exiting /\ driver # "assign" => Submitted \subseteq known
  /\ driver \in {"remove", "start", "assign", "ended"} => job = None
  /\ driver = "clear" => known \subseteq given
  /\ driver = "assign" => round \in Submitted

TurnInv == TypeOK /\ RoundExists /\ InTurn

\* Steps of the driver that submit, cancel and remember nothing.
Looks ==
  \/ CheckVllm \/ ProbeVllm \/ SubmitVllm \/ SeeVllm \/ NoGatewayToCancel
  \/ SeeGatewayUrl \/ ProbeGateway \/ SubmitLoad \/ GiveUp \/ Interrupt \/ CurlHangs

LEMMA DriverCases ==
  DriverStep \/ Accident <=>
    \/ Looks \/ ScancelGateway \/ ClearJob \/ RemoveGatewayUrl \/ SubmitGateway \/ AssignJob
    \/ LoadFinished \/ SqueueFails
  BY DEF DriverStep, Accident, Looks
-----------------------------------------------------------------------------
\* Type correctness.

LEMMA LooksType == TypeOK /\ RoundExists /\ Looks => DriverTypes' /\ RoundExists'
  <1> SUFFICES ASSUME DriverTypes, JobTypes, RoundExists, Looks PROVE DriverTypes' /\ RoundExists'
    BY DEF TypeOK
  <1> USE SweepAssumption
      DEF DriverTypes, RoundExists, InRound, AllRounds, Goto, Remembers, Body, Stopping, Probing
  <1>1. CASE CheckVllm
    BY <1>1 DEF CheckVllm, JobTypes
  <1>2. CASE ProbeVllm
    BY <1>2 DEF ProbeVllm
  <1>3. CASE SubmitVllm
    BY <1>3 DEF SubmitVllm
  <1>10. CASE SeeVllm
    BY <1>10 DEF SeeVllm
  <1>4. CASE NoGatewayToCancel
    BY <1>4 DEF NoGatewayToCancel
  <1>5. CASE SeeGatewayUrl
    BY <1>5 DEF SeeGatewayUrl, JobTypes
  <1>6. CASE ProbeGateway
    BY <1>6 DEF ProbeGateway
  <1>7. CASE SubmitLoad
    BY <1>7 DEF SubmitLoad
  <1>8. CASE GiveUp
    BY <1>8 DEF GiveUp, Bounded
  <1>9. CASE Interrupt
    BY <1>9 DEF Interrupt
  <1>11. CASE CurlHangs
    BY <1>11 DEF CurlHangs
  <1> QED BY <1>10, <1>11, <1>1, <1>2, <1>3, <1>4, <1>5, <1>6, <1>7, <1>8, <1>9 DEF Looks

LEMMA DriverType ==
  TypeOK /\ RoundExists /\ (DriverStep \/ Accident) => DriverTypes' /\ RoundExists'
  <1> SUFFICES ASSUME TypeOK, DriverTypes, RoundExists, DriverStep \/ Accident
               PROVE  DriverTypes' /\ RoundExists'
    BY DEF TypeOK
  <1> USE SweepAssumption
      DEF DriverTypes, RoundExists, InRound, AllRounds, Goto, Remembers, Body, Stopping, Probing
  <1>1. CASE ScancelGateway \/ ClearJob
    BY <1>1 DEF ScancelGateway, ClearJob
  <1>2. CASE RemoveGatewayUrl
    BY <1>2 DEF RemoveGatewayUrl
  <1>3. CASE SubmitGateway
    BY <1>3 DEF SubmitGateway
  <1>4. CASE AssignJob
    BY <1>4 DEF AssignJob
  <1>5. CASE LoadFinished
    BY <1>5 DEF LoadFinished
  <1>6. CASE SqueueFails
    BY <1>6 DEF SqueueFails
  <1> QED BY <1>1, <1>2, <1>3, <1>4, <1>5, <1>6, LooksType, DriverCases

LEMMA DriverKeepsJobTypes ==
  TypeOK /\ RoundExists /\ (DriverStep \/ Accident) => JobTypes'
  <1> SUFFICES ASSUME DriverTypes, JobTypes, RoundExists, DriverStep \/ Accident PROVE JobTypes'
    BY DEF TypeOK
  <1>1. CASE SubmitVllm
    BY <1>1 DEF SubmitVllm, JobTypes, Vllms, gatewayVars, loadVars
  <1>2. CASE SubmitGateway
    BY <1>2 DEF SubmitGateway, JobTypes, Unpublished, Published, Held, vllmVars, loadVars
  <1>3. CASE SubmitLoad
    BY <1>3 DEF SubmitLoad, JobTypes, vllmVars, gatewayVars
  <1>4. CASE RemoveGatewayUrl
    BY <1>4 DEF RemoveGatewayUrl, RemoveUrl, JobTypes, vllmVars, gatewayVars, loadVars
  <1>5. CASE Idle
    BY <1>5 DEF Idle, UnchangedByDriver, JobTypes, gatewayVars
  <1> QED
    BY <1>1, <1>2, <1>3, <1>4, <1>5
       DEF DriverStep, Accident, CheckVllm, ProbeVllm, SeeVllm, ScancelGateway, NoGatewayToCancel,
           ClearJob, AssignJob, SeeGatewayUrl, ProbeGateway, LoadFinished, GiveUp, SqueueFails,
           Interrupt, CurlHangs

LEMMA VllmType == ASSUME JobTypes, NEW j \in Vllms, VllmNext(j) PROVE JobTypes'
  <1> USE DEF JobTypes, VllmStep, UnchangedByVllm, gatewayVars, loadVars, Up
  <1>1. CASE VllmStarts(j) \/ VllmHealthy(j) \/ VllmLost(j)
    BY <1>1 DEF VllmStarts, VllmHealthy, VllmLost
  <1>2. CASE VllmPublishes(j) \/ VllmExits(j)
    BY <1>2 DEF VllmPublishes, VllmExits
  <1> QED BY <1>1, <1>2 DEF VllmNext

LEMMA GatewayType == ASSUME JobTypes, NEW g \in Gateways, GatewayNext(g) PROVE JobTypes'
  <1> USE DEF JobTypes, GatewayStep, UnchangedByGateway, vllmVars, loadVars, Held, Unpublished,
              Published
  <1>1. CASE GatewayStarts(g)
    BY <1>1 DEF GatewayStarts, Occupants
  <1>2. CASE GatewayReadsUrl(g)
    BY <1>2 DEF GatewayReadsUrl
  <1>3. CASE GatewaySeesBackend(g) \/ GatewayServes(g)
    BY <1>3 DEF GatewaySeesBackend, GatewayServes
  <1>4. CASE GatewayEnds(g)
    BY <1>4 DEF GatewayEnds
  <1>5. CASE GatewayPublishes(g)
    BY <1>5 DEF GatewayPublishes
  <1> QED BY <1>1, <1>2, <1>3, <1>4, <1>5 DEF GatewayNext

LEMMA LoadType == ASSUME JobTypes, NEW l \in AllRounds, LoadNext(l) PROVE JobTypes'
  <1> USE DEF JobTypes, LoadStep, UnchangedByLoad, vllmVars, gatewayVars
  <1>1. CASE LoadReadsUrl(l)
    BY <1>1 DEF LoadReadsUrl
  <1>2. CASE LoadAsks(l)
    BY <1>2 DEF LoadAsks, ServingAt
  <1>3. CASE LoadEnds(l)
    BY <1>3 DEF LoadEnds
  <1> QED BY <1>1, <1>2, <1>3 DEF LoadNext

\* The jobs' own steps.
Jobs ==
  \/ \E j \in Vllms : VllmNext(j)
  \/ \E g \in Gateways : GatewayNext(g)
  \/ \E l \in AllRounds : LoadNext(l)

LEMMA JobsLeaveDriver == Jobs \/ UNCHANGED vars => UNCHANGED driverVars
  BY DEF Jobs, VllmNext, VllmStarts, VllmHealthy, VllmPublishes, VllmExits, VllmLost,
     UnchangedByVllm, GatewayNext, GatewayStarts, GatewayReadsUrl, GatewaySeesBackend,
     GatewayPublishes, GatewayServes, GatewayEnds, UnchangedByGateway,
     LoadNext, LoadReadsUrl, LoadAsks, LoadEnds, UnchangedByLoad, vars

LEMMA TypeStep == TypeOK /\ RoundExists /\ [Next]_vars => TypeOK' /\ RoundExists'
  <1> SUFFICES ASSUME TypeOK, RoundExists, [Next]_vars PROVE TypeOK' /\ RoundExists'
    OBVIOUS
  <1>1. CASE Jobs \/ UNCHANGED vars
    <2>1. DriverTypes' /\ RoundExists'
      BY <1>1, JobsLeaveDriver DEF driverVars, TypeOK, DriverTypes, RoundExists
    <2>2. JobTypes'
      BY <1>1, VllmType, GatewayType, LoadType
         DEF Jobs, TypeOK, JobTypes, vars, vllmVars, gatewayVars, loadVars
    <2> QED BY <2>1, <2>2 DEF TypeOK
  <1>2. CASE DriverStep \/ Accident
    BY <1>2, DriverType, DriverKeepsJobTypes DEF TypeOK
  <1> QED BY <1>1, <1>2 DEF Next, Jobs
-----------------------------------------------------------------------------
\* No gateway is forgotten.

\* Steps that leave the accounts of gateways alone.
LEMMA KeepsInTurn ==
  ASSUME TurnInv, Submitted' = Submitted, UNCHANGED <<job, known, given>>,
         round' = round \/ (round' = round + 1 /\ ~ exiting /\ driver # "assign"),
         \/ UNCHANGED <<driver, exiting>>
         \/ driver \in {"cancel", "await_load"} /\ driver' \in {"cancel", "remove"}
            /\ exiting' = exiting /\ (driver' = "remove" => job = None)
         \/ ~ exiting /\ driver # "assign" /\ driver' \notin {"clear", "remove",
            "start", "assign", "ended"}
         \/ exiting' /\ driver' = "cancel"
         \/ driver = "remove" /\ driver' \in {"start", "cancel", "ended"}
            /\ (exiting' <=> exiting \/ driver' # "start")
  PROVE  InTurn'
  BY DEF TurnInv, InTurn, Submitted, AllRounds, TypeOK, DriverTypes

LEMMA SubmittedStays ==
  ASSUME gateway' = gateway PROVE Submitted' = Submitted
  BY DEF Submitted

LEMMA LooksInTurn == TurnInv /\ Looks => InTurn'
  <1> SUFFICES ASSUME TurnInv, Looks PROVE InTurn'
    OBVIOUS
  <1>1. /\ Submitted' = Submitted /\ UNCHANGED <<job, known, given>> /\ round' = round
    BY SubmittedStays
       DEF Looks, CheckVllm, ProbeVllm, SubmitVllm, SeeVllm, NoGatewayToCancel, SeeGatewayUrl,
           ProbeGateway, SubmitLoad, GiveUp, Interrupt, CurlHangs, Idle, Remembers,
           gatewayVars
  <1>2. CASE GiveUp \/ Interrupt
    BY <1>1, <1>2, KeepsInTurn DEF GiveUp, Interrupt
  <1>3. CASE NoGatewayToCancel
    BY <1>1, <1>3, KeepsInTurn DEF NoGatewayToCancel, Goto
  <1>4. CASE \/ CheckVllm \/ ProbeVllm \/ SubmitVllm \/ SeeVllm \/ SeeGatewayUrl \/ ProbeGateway
             \/ SubmitLoad \/ CurlHangs
    <2>1. /\ driver \in {"check", "probe", "submit", "await_vllm", "await_url", "probe_gateway",
                         "load"}
          /\ driver' \notin {"clear", "remove", "start", "assign", "ended"}
      BY <1>4 DEF CheckVllm, ProbeVllm, SubmitVllm, SeeVllm, SeeGatewayUrl, ProbeGateway,
         SubmitLoad, CurlHangs, Goto
    <2>2. ~ exiting
      BY <2>1 DEF TurnInv, TypeOK, DriverTypes, Stopping
    <2> QED BY <1>1, <2>1, <2>2, KeepsInTurn
  <1> QED BY <1>2, <1>3, <1>4 DEF Looks

LEMMA DriverInTurn == TurnInv /\ (DriverStep \/ Accident) => InTurn'
  <1> SUFFICES ASSUME TurnInv, DriverStep \/ Accident PROVE InTurn'
    OBVIOUS
  <1>0. /\ TypeOK /\ RoundExists /\ InTurn
        /\ \A g \in Submitted : g \in AllRounds
    BY DEF TurnInv, Submitted
  <1>1. CASE ScancelGateway
    <2>1. /\ driver = "cancel" /\ driver' = "clear" /\ given' = given \cup {job}
          /\ UNCHANGED <<exiting, round, job, known>> /\ Submitted' = Submitted
      BY <1>1, SubmittedStays DEF ScancelGateway, Goto, Idle
    <2> QED BY <1>0, <2>1 DEF InTurn
  <1>2. CASE ClearJob
    <2>1. /\ driver = "clear" /\ driver' = "remove" /\ job' = None
          /\ UNCHANGED <<exiting, round, known, given>> /\ Submitted' = Submitted
      BY <1>2, SubmittedStays DEF ClearJob, Goto, Idle
    <2> QED BY <1>0, <2>1 DEF InTurn
  <1>3. CASE RemoveGatewayUrl
    <2>1. /\ driver = "remove" /\ driver' \in {"start", "cancel", "ended"}
          /\ (exiting' <=> exiting \/ driver' # "start")
          /\ UNCHANGED <<round, job, known, given>> /\ Submitted' = Submitted
      BY <1>3, SubmittedStays DEF RemoveGatewayUrl, Goto, Remembers, gatewayVars
    <2> QED BY <2>1, KeepsInTurn
  <1>4. CASE SubmitGateway
    <2>1. /\ driver = "start" /\ driver' = "assign"
          /\ UNCHANGED <<exiting, round, job, known, given>> /\ round \in AllRounds
          /\ gateway' = [gateway EXCEPT ![round] = "pending"]
      BY <1>0, <1>4, SweepAssumption
         DEF SubmitGateway, Goto, RoundExists, InRound, TypeOK, DriverTypes, AllRounds, Remembers
    <2>2. Submitted' = Submitted \cup {round}
      BY <1>0, <2>1, SweepAssumption DEF Submitted, TypeOK, JobTypes, Gateways, AllRounds
    <2>3. Submitted \subseteq known /\ job = None
      BY <1>0, <2>1 DEF InTurn, TypeOK, DriverTypes, Stopping
    <2>4. round <= round
      BY <2>1 DEF AllRounds
    <2> QED BY <1>0, <2>1, <2>2, <2>3, <2>4 DEF InTurn
  <1>5. CASE AssignJob
    <2>1. /\ driver = "assign" /\ driver' = "await_url"
          /\ job' = round /\ known' = known \cup {round}
          /\ UNCHANGED <<exiting, round, given>> /\ Submitted' = Submitted
      BY <1>5, SubmittedStays DEF AssignJob, Goto, Idle
    <2>2. job = None /\ known \subseteq given
      BY <1>0, <2>1, SweepAssumption DEF InTurn, TypeOK, DriverTypes, AllRounds
    <2> QED BY <1>0, <2>1, <2>2 DEF InTurn
  <1>6. CASE LoadFinished \/ SqueueFails
    <2>1. /\ driver = "await_load" /\ driver' = "cancel" /\ round' = round + 1
          /\ UNCHANGED <<exiting, job, known, given>> /\ Submitted' = Submitted
      BY <1>6, SubmittedStays DEF LoadFinished, SqueueFails, Goto, Idle, Remembers
    <2>2. ~ exiting
      BY <1>0, <2>1 DEF TypeOK, DriverTypes, Stopping
    <2> QED BY <2>1, <2>2, KeepsInTurn
  <1> QED BY <1>1, <1>2, <1>3, <1>4, <1>5, <1>6, LooksInTurn, DriverCases

LEMMA StepInTurn == TurnInv /\ [Next]_vars => InTurn'
  <1> SUFFICES ASSUME TurnInv, [Next]_vars PROVE InTurn'
    OBVIOUS
  <1>1. CASE \/ \E j \in Vllms : VllmNext(j)
             \/ \E l \in AllRounds : LoadNext(l)
             \/ UNCHANGED vars
    <2>1. UNCHANGED driverVars
      BY <1>1, JobsLeaveDriver DEF Jobs
    <2>2. gateway' = gateway
      BY <1>1 DEF VllmNext, VllmStarts, VllmHealthy, VllmPublishes, VllmExits, VllmLost,
         UnchangedByVllm, LoadNext, LoadReadsUrl, LoadAsks, LoadEnds, UnchangedByLoad, vars,
         gatewayVars
    <2> QED BY <2>1, <2>2, SubmittedStays, KeepsInTurn DEF driverVars
  <1>2. CASE \E g \in Gateways : GatewayNext(g)
    <2>1. PICK g \in Gateways : GatewayNext(g)
      BY <1>2
    <2>0. UNCHANGED driverVars
      BY <1>2, JobsLeaveDriver DEF Jobs
    <2>2. /\ gateway[g] # "none" /\ \E v : v # "none" /\ gateway' = [gateway EXCEPT ![g] = v]
      BY <2>1 DEF GatewayNext, GatewayStarts, GatewayReadsUrl, GatewaySeesBackend,
         GatewayPublishes, GatewayServes, GatewayEnds, GatewayStep, Held
    <2>3. \A h \in Gateways : gateway'[h] # "none" <=> gateway[h] # "none"
      BY <2>2 DEF TurnInv, TypeOK, JobTypes
    <2>4. AllRounds \subseteq Gateways
      BY SweepAssumption DEF AllRounds, Gateways
    <2>5. Submitted' = Submitted
      BY <2>3, <2>4 DEF Submitted
    <2> QED BY <2>0, <2>5, KeepsInTurn DEF driverVars
  <1> QED BY <1>1, <1>2, DriverInTurn DEF Next

LEMMA InitTypes == Init => TypeOK /\ RoundExists
  <1> SUFFICES ASSUME Init PROVE TypeOK /\ RoundExists
    OBVIOUS
  <1>1. vllm \in [Vllms -> {"none", "pending", "ended"} \cup Up] /\ vllmUrl \in Vllms \cup {None}
    BY DEF Init, Vllms, Up
  <1>2. PICK old \in [Leftover -> Left], place \in [Leftover -> Nodes] :
          /\ gateway = [g \in Gateways |-> IF g \in Leftover THEN old[g] ELSE "none"]
          /\ node = [g \in Gateways |->
                       IF g \in Leftover /\ old[g] # "pending" THEN place[g] ELSE None]
          /\ backend = [g \in Gateways |->
                          IF g \in Leftover /\ old[g] \notin {"pending", "reading", "ended"}
                            THEN OldVllm ELSE None]
          /\ gatewayUrl \in {None} \cup {place[g] : g \in {h \in Leftover : old[h] \in Published}}
    BY DEF Init
  <1>3. /\ gateway \in [Gateways -> {"none"} \cup Unpublished \cup Published]
        /\ node \in [Gateways -> Nodes \cup {None}]
        /\ backend \in [Gateways -> Vllms \cup {None}]
        /\ gatewayUrl \in Nodes \cup {None}
    BY <1>2, SweepAssumption DEF Vllms
  <1>4. ASSUME NEW g \in Gateways
        PROVE  gateway[g] \in Held \ {"reading"} => backend[g] # None
    BY <1>2, <1>4, SweepAssumption DEF Held, Unpublished, Published
  <1>5. beside \in [Gateways -> SUBSET Gateways]
    BY DEF Init
  <1>6. DriverTypes /\ RoundExists
    <2>1. /\ driver = "check" /\ exiting = FALSE /\ round = 1 /\ job = None /\ addr = None
          /\ known = {} /\ given = {} /\ unwaited = {}
      BY DEF Init
    <2>2. 1 \in 1..(Rounds + 1)
      BY SweepAssumption
    <2> QED BY <2>1, <2>2 DEF DriverTypes, RoundExists, InRound, Body, Probing, Stopping
  <1>7. /\ load \in [AllRounds -> {"none", "pending", "waiting", "running", "ended"}]
        /\ target \in [AllRounds -> Nodes \cup {None}]
        /\ via \in [AllRounds -> SUBSET Gateways]
    BY DEF Init
  <1> QED BY <1>1, <1>3, <1>4, <1>5, <1>6, <1>7 DEF TypeOK, JobTypes

THEOREM SubmittedInTurn == Spec => []TurnInv
  <1>1. Init => Submitted = {}
    BY SweepAssumption DEF Init, Submitted, AllRounds, Gateways, Leftover
  <1>2. Init => TurnInv
    BY <1>1, InitTypes DEF Init, TurnInv, InTurn
  <1>3. TurnInv /\ [Next]_vars => TurnInv'
    BY TypeStep, StepInTurn DEF TurnInv
  <1> QED BY <1>2, <1>3, PTL DEF Spec

(* The driver, the files and the jobs keep their types.                    *)
THEOREM TypeCorrect == Spec => []TypeOK
  <1>1. TurnInv => TypeOK
    BY DEF TurnInv
  <1> QED BY <1>1, SubmittedInTurn, PTL

(* stop_gateway and its trap (run-sweep.sh:30-37), although they know the  *)
(* last gateway only, although scancel may fail and sbatch be interrupted: *)
(* at most one gateway of the sweep has at any time not been given to      *)
(* scancel; and at the end of the script, normal or not, none whose id it  *)
(* ever got, while one whose id was lost is the last.                      *)
THEOREM NoneForgotten == Spec => []NoGatewayForgotten
  <1>1. TurnInv => NoGatewayForgotten
    <2> SUFFICES ASSUME TurnInv PROVE NoGatewayForgotten
      OBVIOUS
    <2>1. /\ known \subseteq given \cup {job} /\ Submitted \ known \subseteq {round}
          /\ Submitted \subseteq known \/ job = None
          /\ driver = "ended" => job = None
          /\ known \subseteq AllRounds /\ None \notin AllRounds
      BY SweepAssumption DEF TurnInv, InTurn, TypeOK, DriverTypes, AllRounds
    <2> QED BY <2>1 DEF NoGatewayForgotten
  <1> QED BY <1>1, SubmittedInTurn, PTL
-----------------------------------------------------------------------------
\* Who can answer a load test, when no gateway of an earlier experiment is still
\* to publish its address.

\* A node is given at the start, and kept.
Placed ==
  \A g \in Gateways :
    /\ gateway[g] \in Held => node[g] # None
    /\ gateway[g] \in {"none", "pending"} => node[g] = None

\* Two gateways that were given the same node: the earlier had ended by then, or
\* they share it.
Neighbours ==
  \A h \in AllRounds, g \in Gateways :
    g < h /\ node[h] # None /\ node[g] = node[h] => gateway[g] = "ended" \/ g \in beside[h]

\* The driver is before the round's sbatch.
Early ==
  \/ driver \in {"check", "probe", "submit", "await_vllm", "start"}
  \/ driver \in Stopping /\ ~ exiting

\* What has been submitted by the time the driver is where it is.
Submissions ==
  \A r \in AllRounds :
    /\ gateway[r] # "none" => r <= round
    /\ r = round /\ Early => gateway[r] = "none"
    /\ r = round /\ load[r] # "none" =>
         driver \in {"await_load", "ended"} \/ exiting
    /\ r = round /\ driver \in {"probe_gateway", "load", "await_load"} =>
         gateway[r] \in Published
    /\ load[r] # "none" => r <= round /\ gateway[r] \in Published
    /\ load[r] = "none" => via[r] = {}

\* A gateway of an earlier round, or of an earlier experiment, will never again
\* write gateway.url; and the load of an earlier round has ended, if the driver
\* waited for it.
Earlier ==
  /\ \A g \in Gateways : g < round => gateway[g] \notin Unpublished
  /\ \A l \in AllRounds : l < round => load[l] = "ended" \/ l \in unwaited

\* gateway.url, when the round's driver or load may read it.
UrlIsOwn ==
  \A g \in AllRounds :
    /\ g = round
    /\ driver \in InRound \/ load[g] # "none"
    /\ gatewayUrl # None
    => gatewayUrl = node[g] /\ gateway[g] \in Published

TargetIsOwn ==
  \A l \in AllRounds \ unwaited :
    load[l] \in {"waiting", "running"} => target[l] = node[l] /\ node[l] # None

MeasureInv ==
  /\ Placed /\ Neighbours /\ Submissions /\ Earlier /\ UrlIsOwn /\ TargetIsOwn
  /\ OnlyNeighboursAnswer

measureVars == <<gateway, node, beside, load, target, via, unwaited, round>>

\* Steps of the driver that change no job.
Looking ==
  \/ CheckVllm \/ ProbeVllm \/ SubmitVllm \/ SeeVllm \/ ScancelGateway \/ NoGatewayToCancel
  \/ ClearJob \/ RemoveGatewayUrl \/ AssignJob \/ SeeGatewayUrl \/ ProbeGateway
  \/ GiveUp \/ Interrupt \/ CurlHangs

\* Where they lead: into a round only with gateway.url removed, to the probe only
\* with it seen, and from a submitted load only out.
Moves ==
  /\ UNCHANGED measureVars
  /\ Early' => Early
  /\ gatewayUrl' = gatewayUrl \/ gatewayUrl' = None
  /\ driver' \in InRound => driver \in InRound \/ gatewayUrl' = None
  /\ (driver \in {"await_load", "ended"} \/ exiting)
       => (driver' \in {"await_load", "ended"} \/ exiting')
  /\ driver' \in {"probe_gateway", "load", "await_load"} =>
       driver \in {"probe_gateway", "load"} \/ (driver = "await_url" /\ gatewayUrl # None)

LEMMA LookingMoves == TypeOK /\ Looking => Moves
  <1> SUFFICES ASSUME DriverTypes, Looking PROVE Moves
    BY DEF TypeOK
  <1> USE DEF Moves, measureVars, Early, InRound, Goto, Idle, UnchangedByDriver, Remembers,
              vllmVars, gatewayVars, loadVars, Stopping
  <1>1. CASE CheckVllm \/ ProbeVllm \/ SubmitVllm \/ SeeVllm
    BY <1>1 DEF CheckVllm, ProbeVllm, SubmitVllm, SeeVllm
  <1>2. CASE ScancelGateway \/ NoGatewayToCancel \/ ClearJob
    BY <1>2 DEF ScancelGateway, NoGatewayToCancel, ClearJob
  <1>3. CASE RemoveGatewayUrl
    BY <1>3 DEF RemoveGatewayUrl, RemoveUrl, DriverTypes
  <1>4. CASE AssignJob \/ SeeGatewayUrl \/ ProbeGateway
    BY <1>4 DEF AssignJob, SeeGatewayUrl, ProbeGateway
  <1>5. CASE GiveUp \/ Interrupt
    BY <1>5 DEF GiveUp, Interrupt
  <1>6. CASE CurlHangs
    BY <1>6 DEF CurlHangs, DriverTypes
  <1> QED BY <1>1, <1>2, <1>3, <1>4, <1>5, <1>6 DEF Looking

LEMMA LookingKeepsMeasures == TypeOK /\ RoundExists /\ MeasureInv /\ Looking => MeasureInv'
  <1> SUFFICES ASSUME TypeOK, RoundExists, MeasureInv, Looking PROVE MeasureInv'
    OBVIOUS
  <1>1. Moves
    BY LookingMoves
  <1>2. /\ Placed' /\ Neighbours' /\ Earlier' /\ TargetIsOwn' /\ OnlyNeighboursAnswer'
    BY <1>1 DEF Moves, measureVars, MeasureInv, Placed, Neighbours, Earlier, TargetIsOwn,
                OnlyNeighboursAnswer
  <1>3. Submissions'
    <2> SUFFICES ASSUME NEW r \in AllRounds
                 PROVE  /\ gateway[r] # "none" => r <= round
                        /\ r = round /\ Early' => gateway[r] = "none"
                        /\ r = round /\ load[r] # "none" =>
                             driver' \in {"await_load", "ended"} \/ exiting'
                        /\ r = round /\ driver' \in {"probe_gateway", "load", "await_load"} =>
                             gateway[r] \in Published
                        /\ load[r] # "none" => r <= round /\ gateway[r] \in Published
                        /\ load[r] = "none" => via[r] = {}
      BY <1>1 DEF Moves, measureVars, Submissions
    <2>1. r = round /\ driver = "await_url" /\ gatewayUrl # None => gateway[r] \in Published
      BY DEF MeasureInv, UrlIsOwn, InRound
    <2> QED BY <1>1, <2>1 DEF MeasureInv, Submissions, Moves
  <1>4. UrlIsOwn'
    BY <1>1 DEF MeasureInv, UrlIsOwn, Moves, measureVars
  <1> QED BY <1>2, <1>3, <1>4 DEF MeasureInv

\* sbatch of the round's gateway, with no gateway.url left from the last.
LEMMA GatewaySubmitted ==
  TypeOK /\ RoundExists /\ MeasureInv /\ SubmitGateway => MeasureInv'
  <1> SUFFICES ASSUME TypeOK, RoundExists, MeasureInv, SubmitGateway PROVE MeasureInv'
    OBVIOUS
  <1>1. /\ driver = "start" /\ driver' = "assign"
        /\ gateway' = [gateway EXCEPT ![round] = "pending"]
        /\ UNCHANGED <<exiting, node, beside, load, target, via, unwaited, round, gatewayUrl>>
    BY DEF SubmitGateway, Goto, Remembers, loadVars
  <1>2. round \in AllRounds /\ round \in Gateways
    BY <1>1, SweepAssumption
       DEF TypeOK, DriverTypes, RoundExists, InRound, AllRounds, Gateways
  <1>3. /\ gateway[round] = "none" /\ node[round] = None /\ load[round] = "none"
    BY <1>1, <1>2 DEF MeasureInv, Submissions, Early, Placed, Published
  <1>4. \A g \in Gateways : gateway'[g] = IF g = round THEN "pending" ELSE gateway[g]
    BY <1>1 DEF TypeOK, JobTypes
  <1>5. gatewayUrl = None
    BY <1>1, <1>2, <1>3 DEF MeasureInv, UrlIsOwn, InRound, Published
  <1>6. AllRounds \subseteq Gateways /\ round <= round /\ ~ (round < round)
    BY <1>2, SweepAssumption DEF AllRounds, Gateways
  <1>7. Placed' /\ Neighbours'
    BY <1>1, <1>3, <1>4, <1>6 DEF MeasureInv, Placed, Neighbours, Held
  <1>8. Submissions'
    BY <1>1, <1>3, <1>4, <1>6 DEF MeasureInv, Submissions, Early, Stopping, Published
  <1>9. Earlier'
    BY <1>1, <1>4, <1>6 DEF MeasureInv, Earlier
  <1>10. UrlIsOwn' /\ TargetIsOwn' /\ OnlyNeighboursAnswer'
    BY <1>1, <1>5 DEF MeasureInv, UrlIsOwn, TargetIsOwn, OnlyNeighboursAnswer
  <1> QED BY <1>7, <1>8, <1>9, <1>10 DEF MeasureInv

\* sbatch of the round's load test, after its probe.
LEMMA LoadSubmitted == TypeOK /\ RoundExists /\ MeasureInv /\ SubmitLoad => MeasureInv'
  <1> SUFFICES ASSUME TypeOK, RoundExists, MeasureInv, SubmitLoad PROVE MeasureInv'
    OBVIOUS
  <1>1. /\ driver = "load" /\ driver' = "await_load"
        /\ load' = [load EXCEPT ![round] = "pending"]
        /\ UNCHANGED <<exiting, gateway, node, beside, target, via, unwaited, round, gatewayUrl>>
    BY DEF SubmitLoad, Goto, Remembers, gatewayVars
  <1>2. round \in AllRounds /\ round <= round /\ ~ (round < round)
    BY <1>1, SweepAssumption DEF TypeOK, DriverTypes, RoundExists, InRound, AllRounds
  <1>3. gateway[round] \in Published
    BY <1>1, <1>2 DEF MeasureInv, Submissions
  <1>4. \A l \in AllRounds : load'[l] = IF l = round THEN "pending" ELSE load[l]
    BY <1>1 DEF TypeOK, JobTypes
  <1>5. Placed' /\ Neighbours' /\ OnlyNeighboursAnswer'
    BY <1>1 DEF MeasureInv, Placed, Neighbours, OnlyNeighboursAnswer
  <1>6. Submissions'
    BY <1>1, <1>2, <1>3, <1>4 DEF MeasureInv, Submissions, Early, Stopping
  <1>7. Earlier' /\ TargetIsOwn'
    BY <1>1, <1>2, <1>4 DEF MeasureInv, Earlier, TargetIsOwn
  <1>8. UrlIsOwn'
    BY <1>1, <1>2, <1>4 DEF MeasureInv, UrlIsOwn, InRound
  <1> QED BY <1>5, <1>6, <1>7, <1>8 DEF MeasureInv

\* The round ends, with its load or with an error of squeue.
LEMMA RoundEnds ==
  TurnInv /\ MeasureInv /\ (LoadFinished \/ SqueueFails) => MeasureInv'
  <1> SUFFICES ASSUME TypeOK, RoundExists, InTurn, MeasureInv, LoadFinished \/ SqueueFails
               PROVE  MeasureInv'
    BY DEF TurnInv
  <1>1. /\ driver = "await_load" /\ driver' = "cancel" /\ round' = round + 1
        /\ UNCHANGED <<exiting, gateway, node, beside, load, target, via, gatewayUrl>>
        /\ unwaited \subseteq unwaited' /\ (load[round] = "ended" \/ round \in unwaited')
    BY DEF LoadFinished, SqueueFails, Goto, Remembers, Idle, UnchangedByDriver, gatewayVars
  <1>2. /\ round \in AllRounds /\ round \in Int /\ round <= Rounds
    BY <1>1, SweepAssumption DEF TypeOK, DriverTypes, RoundExists, InRound, AllRounds
  <1>3. gateway[round] \in Published
    BY <1>1, <1>2 DEF MeasureInv, Submissions
  <1>4. \A g \in Gateways : g \in Int /\ (g < round + 1 => g < round \/ g = round)
    BY <1>2 DEF Gateways
  <1>5. \A r \in AllRounds : r \in Gateways /\ (r <= round => r <= round + 1 /\ r # round + 1)
    BY <1>2, SweepAssumption DEF AllRounds, Gateways
  <1>6. Placed' /\ Neighbours' /\ TargetIsOwn' /\ OnlyNeighboursAnswer'
    BY <1>1 DEF MeasureInv, Placed, Neighbours, TargetIsOwn, OnlyNeighboursAnswer
  <1>7. Submissions'
    BY <1>1, <1>5 DEF MeasureInv, Submissions
  <1>8. Earlier'
    <2>1. \A g \in Gateways : g < round' => gateway'[g] \notin Unpublished
      BY <1>1, <1>3, <1>4 DEF MeasureInv, Earlier, Unpublished, Published
    <2>2. \A l \in AllRounds : l < round' => load'[l] = "ended" \/ l \in unwaited'
      BY <1>1, <1>4, <1>5 DEF MeasureInv, Earlier
    <2> QED BY <2>1, <2>2 DEF Earlier
  <1>9. UrlIsOwn'
    BY <1>1, <1>5 DEF MeasureInv, UrlIsOwn, Submissions, InRound
  <1> QED BY <1>6, <1>7, <1>8, <1>9 DEF MeasureInv

\* A gateway job: only the round's own writes gateway.url.
LEMMA GatewayKeepsMeasures ==
  ASSUME TypeOK, MeasureInv, NEW g \in Gateways, GatewayNext(g) PROVE MeasureInv'
  <1>1. PICK s \in Unpublished \cup Published :
          /\ gateway[g] \in Held \cup {"pending"} /\ gateway' = [gateway EXCEPT ![g] = s]
          /\ gateway[g] \in Published => s \in Published
          /\ s # "pending"
          /\ UNCHANGED <<driver, exiting, round, unwaited, load, target, via>>
    BY DEF GatewayNext, GatewayStarts, GatewayReadsUrl, GatewaySeesBackend, GatewayPublishes,
       GatewayServes, GatewayEnds, GatewayStep, UnchangedByGateway, driverVars, loadVars, Held,
       Unpublished, Published
  <1>2. \A h \in Gateways : gateway'[h] = IF h = g THEN s ELSE gateway[h]
    BY <1>1 DEF TypeOK, JobTypes
  <1>3. /\ AllRounds \subseteq Gateways /\ Gateways \subseteq Int /\ round \in Int
        /\ \A h \in Gateways : h \in AllRounds \/ h < round
    BY SweepAssumption DEF AllRounds, Gateways, TypeOK, DriverTypes
  <1>4. gateway[g] \in Unpublished => g \in AllRounds /\ g = round
    BY <1>3 DEF MeasureInv, Earlier, Submissions, Unpublished
  <1>5. gateway[g] # "none"
    BY <1>1 DEF Held
  <1>6. Submissions'
    <2> SUFFICES ASSUME NEW r \in AllRounds
                 PROVE  /\ gateway'[r] # "none" => r <= round
                        /\ r = round /\ Early => gateway'[r] = "none"
                        /\ r = round /\ load[r] # "none" =>
                             driver \in {"await_load", "ended"} \/ exiting
                        /\ r = round /\ driver \in {"probe_gateway", "load", "await_load"} =>
                             gateway'[r] \in Published
                        /\ load[r] # "none" => r <= round /\ gateway'[r] \in Published
                        /\ load[r] = "none" => via[r] = {}
      BY <1>1 DEF Submissions, Early
    <2>1. r # g => gateway'[r] = gateway[r]
      BY <1>2, <1>3
    <2>2. r = g => gateway'[r] = s
      BY <1>2, <1>3
    <2> QED BY <1>1, <1>5, <2>1, <2>2 DEF MeasureInv, Submissions
  <1>7. Earlier'
    BY <1>1, <1>2, <1>3, <1>4 DEF MeasureInv, Earlier, Held, Unpublished, Published
  <1>8. CASE GatewayStarts(g)
    <2>1. PICK n \in Nodes :
            /\ node' = [node EXCEPT ![g] = n] /\ beside' = [beside EXCEPT ![g] = Occupants(n)]
      BY <1>8 DEF GatewayStarts
    <2>2. gateway[g] = "pending" /\ node[g] = None /\ s \notin {"none", "pending"} /\ n # None
          /\ gatewayUrl' = gatewayUrl /\ g \in AllRounds /\ g = round
          /\ load[g] = "none" /\ via[g] = {}
      BY <1>1, <1>4, <1>8, <1>2, SweepAssumption DEF GatewayStarts, GatewayStep, MeasureInv, Placed,
         Submissions, Published, Unpublished, TypeOK, JobTypes
    <2>3. /\ \A h \in Gateways : node'[h] = IF h = g THEN n ELSE node[h]
          /\ \A h \in Gateways : beside'[h] = IF h = g THEN Occupants(n) ELSE beside[h]
      BY <2>1 DEF TypeOK, JobTypes
    <2>4. Placed'
      BY <1>2, <2>2, <2>3 DEF MeasureInv, Placed
    <2>5. Neighbours'
      <3> SUFFICES ASSUME NEW h \in AllRounds, NEW k \in Gateways,
                          k < h, node'[h] # None, node'[k] = node'[h]
                   PROVE  gateway'[k] = "ended" \/ k \in beside'[h]
        BY DEF Neighbours
      <3>1. CASE h = g
        <4>0. k # g /\ node'[k] = n
          BY <1>3, <2>3, <3>1
        <4>1. k # g /\ node[k] = n
          BY <4>0, <2>3
        <4>2. gateway[k] \notin {"none", "pending"}
          BY <2>2, <4>1 DEF MeasureInv, Placed
        <4>3. gateway[k] \in Held \/ gateway[k] = "ended"
          BY <4>2 DEF TypeOK, JobTypes, Held, Unpublished, Published
        <4> QED BY <1>2, <1>3, <2>3, <3>1, <4>1, <4>3 DEF Occupants
      <3>2. CASE h # g /\ k = g
        <4>0. h \in Gateways /\ node[h] # None
          BY <1>3, <2>3, <3>2
        <4>1. gateway[h] # "none" /\ h <= round
          BY <4>0 DEF MeasureInv, Placed, Submissions
        <4>2. round < h /\ round \in Int /\ h \in Int
          BY <1>3, <2>2, <3>2
        <4>3. h <= round
          BY <4>1
        <4> QED BY <4>2, <4>3
      <3>3. CASE h # g /\ k # g
        BY <1>2, <1>3, <2>3, <3>3 DEF MeasureInv, Neighbours
      <3> QED BY <3>1, <3>2, <3>3
    <2>6. UrlIsOwn'
      BY <1>1, <2>2 DEF MeasureInv, UrlIsOwn, Unpublished, Published
    <2>7. TargetIsOwn' /\ OnlyNeighboursAnswer'
      BY <1>1, <1>3, <2>2, <2>3 DEF MeasureInv, TargetIsOwn, OnlyNeighboursAnswer
    <2> QED BY <1>6, <1>7, <2>4, <2>5, <2>6, <2>7 DEF MeasureInv
  <1>9. CASE ~ GatewayStarts(g)
    <2>0. UNCHANGED <<node, beside>> /\ (gateway[g] \in Held \/ gateway'[g] = "ended")
      BY <1>9 DEF GatewayNext, GatewayReadsUrl, GatewaySeesBackend, GatewayPublishes,
         GatewayServes, GatewayEnds, GatewayStep, Held, TypeOK, JobTypes
    <2>1. UNCHANGED <<node, beside>> /\ (gateway[g] \in Held \/ s = "ended")
      BY <1>2, <2>0
    <2>2. \/ gatewayUrl' = gatewayUrl
          \/ gateway[g] = "ready" /\ gatewayUrl' = node[g] /\ s \in Published
      BY <1>1, <1>2, <1>9 DEF GatewayNext, GatewayReadsUrl, GatewaySeesBackend, GatewayPublishes,
         GatewayServes, GatewayEnds, GatewayStep, Published, TypeOK, JobTypes
    <2>3. Placed'
      BY <1>1, <1>2, <1>5, <2>1 DEF MeasureInv, Placed, Held, Unpublished, Published
    <2>4. Neighbours'
      <3>1. gateway[g] # "ended"
        BY <1>1 DEF Held
      <3> QED BY <1>2, <1>3, <2>1, <3>1 DEF MeasureInv, Neighbours
    <2>5. UrlIsOwn'
      <3>1. CASE gatewayUrl' = gatewayUrl
        BY <1>1, <1>2, <1>3, <2>1, <3>1 DEF MeasureInv, UrlIsOwn
      <3>2. CASE gateway[g] = "ready" /\ gatewayUrl' = node[g] /\ s \in Published
        BY <1>1, <1>2, <1>3, <1>4, <2>1, <3>2 DEF UrlIsOwn, Unpublished
      <3> QED BY <2>2, <3>1, <3>2
    <2>6. TargetIsOwn' /\ OnlyNeighboursAnswer'
      BY <1>1, <2>1 DEF MeasureInv, TargetIsOwn, OnlyNeighboursAnswer
    <2> QED BY <1>6, <1>7, <2>3, <2>4, <2>5, <2>6 DEF MeasureInv
  <1> QED BY <1>8, <1>9

\* A load test asks whoever answers at the address of its own gateway.
LEMMA LoadKeepsMeasures ==
  ASSUME TypeOK, MeasureInv, NEW l \in AllRounds, LoadNext(l) PROVE MeasureInv'
  <1>1. UNCHANGED <<driver, exiting, round, unwaited, gateway, node, beside, gatewayUrl>>
    BY DEF LoadNext, LoadReadsUrl, LoadAsks, LoadEnds, UnchangedByLoad, driverVars, gatewayVars
  <1>2. PICK s : /\ load[l] \notin {"none", "ended"} /\ s # "none"
                 /\ load' = [load EXCEPT ![l] = s]
    BY DEF LoadNext, LoadReadsUrl, LoadAsks, LoadEnds, LoadStep
  <1>3. \A k \in AllRounds : load'[k] = IF k = l THEN s ELSE load[k]
    BY <1>2 DEF TypeOK, JobTypes
  <1>4. /\ AllRounds \subseteq Gateways /\ Gateways \subseteq Int /\ round \in Int
    BY SweepAssumption DEF AllRounds, Gateways, TypeOK, DriverTypes
  <1>5. \A k \in AllRounds : k # l => via'[k] = via[k] /\ target'[k] = target[k]
    BY DEF LoadNext, LoadReadsUrl, LoadAsks, LoadEnds, TypeOK, JobTypes
  <1>6. l <= round /\ (l < round => l \in unwaited)
    BY <1>2, <1>4 DEF MeasureInv, Submissions, Earlier
  <1>7. Placed' /\ Neighbours' /\ Earlier' /\ UrlIsOwn'
    BY <1>1, <1>2, <1>3 DEF MeasureInv, Placed, Neighbours, Earlier, UrlIsOwn
  <1>8. Submissions'
    BY <1>1, <1>2, <1>3, <1>5 DEF MeasureInv, Submissions, Early
  <1>9. TargetIsOwn'
    <2>1. ASSUME l \notin unwaited, s \in {"waiting", "running"}
          PROVE  target'[l] = node[l] /\ node[l] # None
      <3>1. l = round
        BY <2>1, <1>4, <1>6
      <3>2. CASE LoadReadsUrl(l)
        <4>1. target'[l] = gatewayUrl /\ gatewayUrl # None
          BY <1>2, <1>3, <2>1, <3>2 DEF LoadReadsUrl, LoadStep, TypeOK, JobTypes
        <4>2. load[l] # "none"
          BY <1>2
        <4> QED BY <3>1, <4>1, <4>2 DEF MeasureInv, UrlIsOwn
      <3>3. CASE LoadAsks(l)
        BY <2>1, <3>3 DEF LoadAsks, LoadStep, MeasureInv, TargetIsOwn
      <3>4. CASE LoadEnds(l)
        BY <1>3, <2>1, <3>4 DEF LoadEnds, LoadStep, TypeOK, JobTypes
      <3> QED BY <3>2, <3>3, <3>4 DEF LoadNext
    <2> QED BY <1>1, <1>3, <1>5, <2>1 DEF MeasureInv, TargetIsOwn
  <1>10. OnlyNeighboursAnswer'
    <2>1. ASSUME l \notin unwaited PROVE via'[l] \subseteq {l} \cup beside[l]
      <3>1. CASE LoadAsks(l)
        <4>1. via'[l] = via[l] \cup ServingAt(target[l])
          BY <3>1 DEF LoadAsks, TypeOK, JobTypes
        <4>0. load[l] \in {"waiting", "running"}
          BY <3>1 DEF LoadAsks, LoadStep
        <4>2. target[l] = node[l] /\ node[l] # None /\ l = round
          BY <2>1, <4>0, <1>4, <1>6 DEF MeasureInv, TargetIsOwn
        <4>3. ASSUME NEW g \in ServingAt(target[l]), g # l PROVE g \in beside[l]
          <5>1. g \in Gateways /\ gateway[g] = "serving" /\ node[g] = node[l]
            BY <4>2 DEF ServingAt
          <5>2. g \in AllRounds => g <= round
            BY <5>1 DEF MeasureInv, Submissions
          <5>3. g < l
            BY <1>4, <4>2, <4>3, <5>1, <5>2, SweepAssumption DEF Gateways, AllRounds
          <5> QED BY <4>2, <5>1, <5>3 DEF MeasureInv, Neighbours
        <4> QED BY <2>1, <4>1, <4>3 DEF MeasureInv, OnlyNeighboursAnswer
      <3>2. CASE ~ LoadAsks(l)
        BY <2>1, <3>2 DEF LoadNext, LoadReadsUrl, LoadEnds, MeasureInv, OnlyNeighboursAnswer
      <3> QED BY <3>1, <3>2
    <2> QED BY <1>1, <1>5, <2>1 DEF MeasureInv, OnlyNeighboursAnswer
  <1> QED BY <1>7, <1>8, <1>9, <1>10 DEF MeasureInv

LEMMA StepMeasures == TurnInv /\ MeasureInv /\ [Next]_vars => MeasureInv'
  <1> SUFFICES ASSUME TurnInv, TypeOK, RoundExists, MeasureInv, [Next]_vars PROVE MeasureInv'
    BY DEF TurnInv
  <1>1. CASE DriverStep \/ Accident
    BY <1>1, LookingKeepsMeasures, GatewaySubmitted, LoadSubmitted, RoundEnds
       DEF DriverStep, Accident, Looking
  <1>2. CASE (\E j \in Vllms : VllmNext(j)) \/ UNCHANGED vars
    <2>1. UNCHANGED <<driver, exiting, measureVars, gatewayUrl>>
      BY <1>2 DEF VllmNext, VllmStarts, VllmHealthy, VllmPublishes, VllmExits, VllmLost,
         UnchangedByVllm, vars, driverVars, gatewayVars, loadVars, measureVars
    <2> QED BY <2>1 DEF MeasureInv, measureVars, Placed, Neighbours, Submissions, Early, Earlier,
            UrlIsOwn, TargetIsOwn, OnlyNeighboursAnswer
  <1> QED BY <1>1, <1>2, GatewayKeepsMeasures, LoadKeepsMeasures DEF Next

LEMMA InitMeasures ==
  ASSUME Left \cap Unpublished = {}, Init PROVE MeasureInv
  <1>1. PICK old \in [Leftover -> Left], place \in [Leftover -> Nodes] :
          /\ gateway = [g \in Gateways |-> IF g \in Leftover THEN old[g] ELSE "none"]
          /\ node = [g \in Gateways |->
                       IF g \in Leftover /\ old[g] # "pending" THEN place[g] ELSE None]
    BY DEF Init
  <1>2. /\ driver = "check" /\ round = 1 /\ exiting = FALSE
        /\ load = [l \in AllRounds |-> "none"] /\ via = [l \in AllRounds |-> {}]
    BY DEF Init
  <1>3. \A r \in AllRounds : r \in Gateways /\ r \notin Leftover /\ ~ (r < 1)
    BY SweepAssumption DEF AllRounds, Gateways, Leftover
  <1>4. Placed /\ Neighbours
    BY <1>1, <1>3, SweepAssumption DEF Placed, Neighbours, Held, Unpublished, Published
  <1>5. Submissions /\ UrlIsOwn
    BY <1>1, <1>2, <1>3 DEF Submissions, UrlIsOwn, InRound
  <1>6. Earlier
    BY <1>1, <1>2, <1>3 DEF Earlier, Unpublished
  <1>7. TargetIsOwn /\ OnlyNeighboursAnswer
    BY <1>2 DEF TargetIsOwn, OnlyNeighboursAnswer
  <1> QED BY <1>4, <1>5, <1>6, <1>7 DEF MeasureInv

(* The rounds of run-sweep.sh:53-79: wherever Slurm puts the gateways, the *)
(* sweep's own and those that earlier experiments left running, however    *)
(* late a cancelled one ends, if it ends, whichever job fails and whatever *)
(* squeue says, a load test that the driver waited for is answered by the  *)
(* gateway of its own round, or by one that was alive on that gateway's    *)
(* node when it started; provided that no earlier experiment has a gateway *)
(* in the queue or still on its way to writing gateway.url.                *)
THEOREM OwnNodeAnswers ==
  ASSUME Left \cap Unpublished = {} PROVE Spec => []OnlyNeighboursAnswer
  <1>1. Init => MeasureInv
    BY InitMeasures
  <1>2. TurnInv /\ MeasureInv /\ [Next]_vars => MeasureInv'
    BY StepMeasures
  <1>3. MeasureInv => OnlyNeighboursAnswer
    BY DEF MeasureInv
  <1> QED BY <1>1, <1>2, <1>3, SubmittedInTurn, PTL DEF Spec
=============================================================================
