---------------------------- MODULE TraceGenerator ----------------------------
(***************************************************************************)
(* scripts/gen-trace.py: the traces each generator can produce.  A random  *)
(* number becomes a choice: who sends, if both tenants have a chance; how  *)
(* long until the next arrival; how long a burst is.                       *)
(***************************************************************************)
EXTENDS Integers, Sequences, FiniteSetsExt, Functions

CONSTANTS
  HotTenant, TailTenant,  \* --hot, --tail
  Gaps                    \* what an exponential draw, rounded, can be

ASSUME TraceAssumption == HotTenant # TailTenant /\ Gaps \subseteq Nat /\ Gaps # {}

\* arrival_s not accumulated.
ArrivalIsGap(gap, i) == IF i = 1 THEN 0 ELSE gap[i - 1]

\* t, at the row i.
ArrivalTime(gap, i) == SumFunctionOnSet(gap, 1..(i - 1))

\* The traces of n rows in which the sequence of tenants is one of S.
Traces(n, S) ==
  {[i \in 1..n |-> [arrival |-> ArrivalTime(g, i), tenant |-> s[i], prompt |-> (i - 1) % 3]] :
     s \in S, g \in [1..n -> Gaps]}

AnyTenants(n) == [1..n -> {HotTenant, TailTenant}]

gen_sparse_tail(n) == Traces(n, AnyTenants(n))

\* Its chances differ by phase; none of them is 0 or 1.
gen_popularity_shift(n) == Traces(n, AnyTenants(n))

gen_balanced_mix(n) == Traces(n, AnyTenants(n))

\* left[i] is burst_left once row i has had its chance to start a burst.
Bursts(n) ==
  {left \in [1..n -> 0..5] :
     \A i \in 1..n :
       LET before == IF i = 1 THEN 0 ELSE Max({0, left[i - 1] - 1})
       IN IF before = 0 THEN left[i] # 1 ELSE left[i] = before}

gen_bursty_tail(n) ==
  Traces(n, {[i \in 1..n |-> IF left[i] > 0 THEN TailTenant ELSE HotTenant] : left \in Bursts(n)})

generate(type, n) ==
  CASE type = "sparse_tail"      -> gen_sparse_tail(n)
    [] type = "bursty_tail"      -> gen_bursty_tail(n)
    [] type = "popularity_shift" -> gen_popularity_shift(n)
    [] type = "balanced_mix"     -> gen_balanced_mix(n)
=============================================================================
