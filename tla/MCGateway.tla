------------------------------ MODULE MCGateway ------------------------------
(***************************************************************************)
(* Two chat requests and two probes over two server threads and one slot:  *)
(* a request can wait in the policy, a probe for a thread, and the probes  *)
(* can hold both threads.  One request names a tenant with an adapter, one *)
(* none.                                                                   *)
(***************************************************************************)
EXTENDS Gateway, TLC

CONSTANTS q1, q2, p1, p2, lora, base, anon

MCRequests == {q1, q2}
MCProbes == {p1, p2}
MCNames == {lora, base, anon}
MCBody == q1 :> [tenant |-> None, header |-> lora, model |-> None]
       @@ q2 :> [tenant |-> None, header |-> None, model |-> None]
=============================================================================
