SPECIFICATION Spec
CONSTANTS
  c1 = c1
  c2 = c2
  c3 = c3
  Callers <- MCCallers
  Argument <- MCArgument
  Plans <- MCPlans
  Peers <- MCPeers
  Together <- MCTogether
  Noise <- MCNoise
  MaxNoise = 1
  MaxCalls = 2
  MaxUnderWay = 1
SYMMETRY Symmetry
CHECK_DEADLOCK FALSE
INVARIANT
  TypeOK
  OwnAnswer
  NoCrossTalk
  AnsweredCallsReturn
  TextsArriveWhole
