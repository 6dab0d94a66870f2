-------------------------- MODULE MCAsyncDispatcher --------------------------
(***************************************************************************)
(* Instances of AsyncDispatcher for TLC: three requests, of two tenants    *)
(* and of two models, so that tenants and models do not coincide.          *)
(***************************************************************************)
EXTENDS AsyncDispatcher, TLC

CONSTANTS r1, r2, r3, t1, t2, m1, m2

MCRequests == {r1, r2, r3}
MCTenants == {t1, t2}
MCTenantOf == r1 :> t1 @@ r2 :> t1 @@ r3 :> t2
MCModels == {m1, m2}
MCModelOf == r1 :> m1 @@ r2 :> m2 @@ r3 :> m1
MCImpatient == {r1}

\* Two requests are enough for a disagreement about the tags.
PairRequests == {r1, r2}
PairTenantOf == r1 :> t1 @@ r2 :> t2
PairModelOf == r1 :> m1 @@ r2 :> m2
=============================================================================
