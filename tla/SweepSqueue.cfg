CONSTANTS
  Rounds = 2
  Leftovers = 1
  Left <- StillRunning
  n1 = n1  n2 = n2
  Nodes <- MCNodes
  OldVllm = OldVllm
  NewVllm = NewVllm
  None = None
  MayShareNode = FALSE
  SqueueMayFail = TRUE
SPECIFICATION Spec
INVARIANT MeasuresOwnGateway
CHECK_DEADLOCK FALSE
