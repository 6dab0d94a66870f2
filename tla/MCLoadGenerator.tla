--------------------------- MODULE MCLoadGenerator ---------------------------
(***************************************************************************)
(* Five requests in a closed loop, more than a cycle of each mix: weights  *)
(* 3 and 1, a tenant named twice, and a weight of 0; and every trace of    *)
(* three rows.  Two workers: the pool falls behind.                        *)
(***************************************************************************)
EXTENDS LoadGenerator

CONSTANTS tA, tB

Part(k, v) == [key |-> k, value |-> v]

MCMixes == { <<Part(tA, 3), Part(tB, Null)>>,
             <<Part(tA, 1), Part(tB, 1), Part(tA, 2)>>,
             <<Part(tA, 1), Part(tB, 0)>> }
MCReplayed == UNION {generate(type, 3) :
                type \in {"sparse_tail", "bursty_tail", "popularity_shift", "balanced_mix"}}
=============================================================================
