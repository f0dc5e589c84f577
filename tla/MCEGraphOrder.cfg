SPECIFICATION PassesSpec
CONSTANTS
  Leaves <- Names
  Data <- Numbers
  Envs <- Samples
  Apply <- Operations
  Programs <- Blocks
  Width = 4
  Word = 4
  Depth = 3
  Rounds = 3
CHECK_DEADLOCK FALSE
INVARIANT OrderPreserved
