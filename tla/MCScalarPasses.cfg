SPECIFICATION FairSpec
CONSTANTS
  N = 4
  Data <- Bits
  Zero = 0
  Apply <- Operations
  Programs <- WellFormedOnes
  Undef = Undef
  Absent = Absent
  Any = Any
  NumberingIdentities <- GVNLaws
  CombineIdentities <- CombineLaws
  Commuting = {"add"}
  Associating = {"add"}
  Rounds = 2
CHECK_DEADLOCK FALSE
INVARIANTS ConstantsHold SameBehaviour PhisMatchPreds OperandsExist RangesCover LivenessExact
PROPERTIES PassesEnd
