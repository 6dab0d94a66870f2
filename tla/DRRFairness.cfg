CONSTANTS
  a1 = a1  a2 = a2  a3 = a3  b1 = b1  b2 = b2  c1 = c1
  tA = tA  tB = tB  tC = tC
  NoCount = NoCount
  DefaultQuantum = 2
  Requests <- MCRequests
  Tenants <- MCTenants
  TenantOf <- MCTenantOf
  PromptTokens <- MCPromptTokens
  Declared <- MCDeclared
  DeclaredQuantum <- MCDeclaredQuantum
SPECIFICATION FairSpec
INVARIANTS
  FairTypeOK
  TokenBudget
  TokenShare
  HeadWaitBound
PROPERTIES
  SelectTerminates
CHECK_DEADLOCK FALSE
