CONSTANTS
  tA = tA  tB = tB
  Null = Null
  Garbled = Garbled
  NoSummary = NoSummary
  HotTenant = tA
  TailTenant = tB
  Gaps = {0, 2}
  Mixes <- MCMixes
  Replayed <- MCReplayed
  ClosedCount = 5
  Concurrency = 2
SPECIFICATION FairSpec
INVARIANTS
  TypeOK
  ExitAfterAllSends
  SummaryAccounts
  MixKept
  ReplayFollowsTrace
PROPERTY LoadEnds
CHECK_DEADLOCK FALSE
