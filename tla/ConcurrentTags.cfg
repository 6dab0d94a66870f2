CONSTANTS
  r1 = r1  r2 = r2  r3 = r3
  t1 = t1  t2 = t2
  m1 = m1  m2 = m2
  NoModel = NoModel
  NoRequest = NoRequest
  Requests <- PairRequests
  Tenants <- MCTenants
  TenantOf <- PairTenantOf
  Models <- MCModels
  ModelOf <- PairModelOf
  Impatient <- MCImpatient
  MaxConcurrency = 2
  WaitOnClose = TRUE
SPECIFICATION Spec
INVARIANT TagsFollowSelection
CHECK_DEADLOCK FALSE
