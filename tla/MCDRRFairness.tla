---------------------------- MODULE MCDRRFairness ----------------------------
(***************************************************************************)
(* Two configured tenants and a newcomer.  Costs below, at and above a     *)
(* quantum, one of several quanta, and a prompt that was never counted.    *)
(***************************************************************************)
EXTENDS DRRFairness, TLC

CONSTANTS a1, a2, a3, b1, b2, c1, tA, tB, tC

MCRequests == {a1, a2, a3, b1, b2, c1}
MCTenants == {tA, tB, tC}
MCTenantOf == a1 :> tA @@ a2 :> tA @@ a3 :> tA @@ b1 :> tB @@ b2 :> tB @@ c1 :> tC
MCPromptTokens == a1 :> 0 @@ a2 :> 1 @@ a3 :> 3 @@ b1 :> 7 @@ b2 :> NoCount @@ c1 :> 4
MCDeclared == <<tA, tB>>
MCDeclaredQuantum == tA :> 2 @@ tB :> 3
=============================================================================
