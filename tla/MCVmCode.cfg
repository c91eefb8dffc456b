CONSTANTS
  Proto <- MCProto
  EntryProtos = {2, 3}
  NativeProtos = {1, 4}
  InitGlobals <- MCInitGlobals
  Results <- MCResults
  DirectApi = TRUE
  Reuse = FALSE
  HostTopMax = 2
  StackInitCap = 4
  StackMaxCap = 8
  FramesInitCap = 1
  FramesMax = 3
SPECIFICATION FairSpec
INVARIANTS NeverFaults
PROPERTIES SlotsFrozen HostRegainsControl
