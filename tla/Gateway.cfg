CONSTANTS
  q1 = q1  q2 = q2  p1 = p1  p2 = p2
  lora = lora  base = base  anon = anon
  None = None
  Requests <- MCRequests
  Probes <- MCProbes
  Names <- MCNames
  Body <- MCBody
  DefaultTenant = anon
  DefaultModel = base
  LoraTenants = {lora}
  MaxConcurrency = 1
  PoolThreads = 2
  Unwritable = {q1}
SPECIFICATION FairSpec
INVARIANTS
  TypeOK
  AnswerAgreesWithLog
PROPERTY EveryCallAnswered
CHECK_DEADLOCK FALSE
