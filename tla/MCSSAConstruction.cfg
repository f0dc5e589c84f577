SPECIFICATION Spec
CONSTANTS
  N = 4
  Programs <- ConvertedOrOdd
  MaxOps = 2
  Data <- Bits
  Stored <- Extremes
  Undef = 4
  Loads <- MCLoads
  Stores <- MCStores
  Direct <- MCDirect
  Plain <- MCPlain
  Reads <- MCReads
  Writes <- MCWrites
CHECK_DEADLOCK FALSE
INVARIANTS CoveredLoadsAgree StackFollowsTree DefsDominateUses PhisComplete
