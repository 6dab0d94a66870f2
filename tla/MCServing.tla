------------------------------ MODULE MCServing ------------------------------
(***************************************************************************)
(* One scheduler over each policy, and three requests: two of a configured *)
(* tenant and one of a tenant that only its request names; another tenant  *)
(* is configured and never sends.  The prompts cost 1 token, 40 by the     *)
(* tokenizer, and 18 by the length of the text when the tokenizer fails:   *)
(* DRR's loop skips, carries over and serves.                              *)
(***************************************************************************)
EXTENDS Serving, TLC

CONSTANTS r1, r2, r3, tA, tB, tN, m1, m2

MCRequests == {r1, r2, r3}
MCTenants == {tA, tB, tN}
MCTenantOf == r1 :> tA @@ r2 :> tA @@ r3 :> tN
MCModels == {m1, m2}
MCModelOf == r1 :> m1 @@ r2 :> m2 @@ r3 :> m1
MCImpatient == {r1}

MCPrompt == r1 :> [chars |-> 160, ids |-> 40] @@ r2 :> [chars |-> 0, ids |-> 0]
              @@ r3 :> [chars |-> 70, ids |-> Null]

Part(k, v) == [key |-> k, value |-> v]

MCDefaultWeights == <<Part(tA, 1), Part(tB, 1)>>
MCDefaultQuanta == <<Part(tA, 16), Part(tB, 16)>>

\* The last four are refused: the gateway does not start.
MCEnvironments ==
  {[mode |-> "fifo", weights |-> Unset, quanta |-> Unset],
   [mode |-> "wrr", weights |-> <<Part(tA, 2), Part(tB, Null), Part(tA, 3)>>, quanta |-> Unset],
   [mode |-> "drr", weights |-> Unset, quanta |-> Unset],
   [mode |-> "drr", weights |-> Unset, quanta |-> <<Part(tB, 8)>>],
   [mode |-> "wrr", weights |-> <<Part(tA, 0), Part(tB, 1)>>, quanta |-> Unset],
   [mode |-> "fifo", weights |-> Unset, quanta |-> <<Part(tA, Garbled)>>],
   [mode |-> "wrr", weights |-> <<>>, quanta |-> Unset],
   [mode |-> "sjf", weights |-> Unset, quanta |-> Unset]}
=============================================================================
