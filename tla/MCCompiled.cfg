CONSTANTS
  MaxLocals = 6
  MaxBlocks = 6
  MaxConsts = 8
  MaxDiags = 3
  MaxNodes = 9
  MaxItems = 3
  MaxInt = 3
  StateGlobals = {"a"}
  MaxDecisions = 5
  MaxTrace = 16
  LoopFuel = 40
  Names <- NameList
  Jobs <- MCJobs
SPECIFICATION Spec
INVARIANTS Faithful Fits NeverRunsOff CleanEnd
CHECK_DEADLOCK FALSE
