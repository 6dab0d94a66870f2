CONSTANTS
  r1 = r1  r2 = r2  r3 = r3
  t1 = t1  t2 = t2
  m1 = m1  m2 = m2
  NoModel = NoModel
  NoRequest = NoRequest
  Requests <- MCRequests
  Tenants <- MCTenants
  TenantOf <- MCTenantOf
  Models <- MCModels
  ModelOf <- MCModelOf
  Impatient <- MCImpatient
  MaxConcurrency = 2
  WaitOnClose = TRUE
SPECIFICATION Spec
INVARIANTS
  TypeOK
  SlotConservation
  OnePlace
  RegistryExact
  
  OneColdPerModel
PROPERTY ImplementsAdmission
CHECK_DEADLOCK FALSE
