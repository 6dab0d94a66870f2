CONSTANTS
  a1 = a1  a2 = a2  a3 = a3  b1 = b1  b2 = b2  c1 = c1
  tA = tA  tB = tB  tC = tC
  Requests <- MCRequests
  Tenants <- MCTenants
  TenantOf <- MCTenantOf
  Declared <- MCDeclared
  DeclaredWeight <- MCDeclaredWeight
SPECIFICATION FairSpec
INVARIANTS
  FairTypeOK
  ScanFindsOne
  CatchUpBound
  SteadyShare
CHECK_DEADLOCK FALSE
