CONSTANTS
    Funs = {f, g}
    Globs = {x}
    Last = 2
    Freed = Freed
    Null = Null
SPECIFICATION MergeSpec
INVARIANTS DefinitionsWin FailsOnCollisionOnly
           OwnCallsSurvive NoDanglingOperand OnlySharedNamesAreLost
CHECK_DEADLOCK FALSE
