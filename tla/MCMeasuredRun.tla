---------------------------- MODULE MCMeasuredRun ----------------------------
(***************************************************************************)
(* Three requests of two tenants and two models, the third for the model   *)
(* of the first, on one worker, two or three; then perhaps a second        *)
(* gateway, for one more request, with the same scheduler or another.  One *)
(* tenant's name is not ASCII.                                             *)
(***************************************************************************)
EXTENDS MeasuredRun, TLC

CONSTANTS r1, r2, r3, r4, tA, tB, m1, m2

MCWorkloads == <<<<r1, r2, r3>>, <<r4>>>>
MCTenantOf == r1 :> tA @@ r2 :> tB @@ r3 :> tB @@ r4 :> tA
MCModels == {m1, m2}
MCModelOf == r1 :> m1 @@ r2 :> m2 @@ r3 :> m1 @@ r4 :> m2
=============================================================================
