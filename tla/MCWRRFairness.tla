---------------------------- MODULE MCWRRFairness ----------------------------
(***************************************************************************)
(* Two configured tenants of weights 1 and 2 and a third that nobody       *)
(* configured, with requests enough for one to be idle, return and catch   *)
(* up while another waits.                                                 *)
(***************************************************************************)
EXTENDS WRRFairness, TLC

CONSTANTS a1, a2, a3, b1, b2, c1, tA, tB, tC

MCRequests == {a1, a2, a3, b1, b2, c1}
MCTenants == {tA, tB, tC}
MCTenantOf == a1 :> tA @@ a2 :> tA @@ a3 :> tA @@ b1 :> tB @@ b2 :> tB @@ c1 :> tC
MCDeclared == <<tB, tA>>
MCDeclaredWeight == tA :> 2 @@ tB :> 1
=============================================================================
