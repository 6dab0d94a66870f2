CONSTANTS
  Rounds = 2
  Leftovers = 0
  Left <- AllGone
  n1 = n1  n2 = n2
  Nodes <- MCNodes
  OldVllm = OldVllm
  NewVllm = NewVllm
  None = None
  MayShareNode = TRUE
  SqueueMayFail = TRUE
SPECIFICATION FairSpec
INVARIANTS
  TypeOK
  OnlyNeighboursAnswer
  NoGatewayForgotten
PROPERTY SweepEnds
CHECK_DEADLOCK FALSE
