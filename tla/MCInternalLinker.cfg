SPECIFICATION FairSpec
CONSTANTS
  Inputs = 2
  Members = 2
  a = a
  b = b
  data = data
  Main = main
  Start = start
  Names = {main, start, data, a, b}
  Placed = 2
  SectionOf <- SectionOfEach
  SectionNames = {data}
  Align = 2
  Page = 8
  StubSize = 2
  ThunkSize = 1
  Builds <- EveryBuild
  None = None
  Stub = Stub
  Thunk = Thunk
  Slot = Slot
  Merged = Merged
CHECK_DEADLOCK FALSE
INVARIANTS ExtractionIsNeeded ExtractionIsEnough ErrorsAreDeserved
           ReferencesBind NothingOverlaps
PROPERTIES LinkEnds
