CONSTANTS
  r1 = r1  r2 = r2  r3 = r3  r4 = r4
  tA = tA  tB = tB
  m1 = m1  m2 = m2
  NoModel = NoModel
  Workloads <- MCWorkloads
  Schedulers = {"fifo", "drr"}
  TenantOf <- MCTenantOf
  Models <- MCModels
  ModelOf <- MCModelOf
  NonAscii = {tB}
  MaxWorkers = 3
SPECIFICATION RunSpec
INVARIANTS
  RunTypeOK
  TagsAgree
  GapsFitWindow
  AnalysedOnce
CHECK_DEADLOCK FALSE
