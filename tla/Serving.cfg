CONSTANTS
  r1 = r1  r2 = r2  r3 = r3
  tA = tA  tB = tB  tN = tN
  m1 = m1  m2 = m2
  NoModel = NoModel
  NoRequest = NoRequest
  Null = Null
  Garbled = Garbled
  Requests <- MCRequests
  Tenants <- MCTenants
  TenantOf <- MCTenantOf
  Models <- MCModels
  ModelOf <- MCModelOf
  Impatient <- MCImpatient
  MaxConcurrency = 1
  WaitOnClose = FALSE
  Prompt <- MCPrompt
  TokenizerLoaded = TRUE
  Environments <- MCEnvironments
  DefaultWeights <- MCDefaultWeights
  DefaultQuanta <- MCDefaultQuanta
SPECIFICATION FairSpec
INVARIANTS
  FirstComeFirstStarted
  TagsFollowSelection
PROPERTIES
  ImplementsDispatcher
  EveryRequestAnswered
  CloseEndsScheduler
CHECK_DEADLOCK FALSE
