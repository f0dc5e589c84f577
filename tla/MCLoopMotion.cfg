SPECIFICATION FairMotionSpec
CONSTANTS
  N = 4
  Graphs <- EveryGraph
  Codes <- Chains
CHECK_DEADLOCK FALSE
INVARIANTS TreeExact FrontierExact MotionKeepsSSA
PROPERTY MotionEnds
