CONSTANTS
  Proto <- MCProto
  EntryProtos <- MCEntryProtos
  InitGlobals <- MCInitGlobals
  Results <- MCResults
  NativeProtos = {1}
  DirectApi = FALSE
  Reuse = FALSE
  HostTopMax = 0
  StackInitCap = 2
  StackMaxCap = 9
  FramesInitCap = 1
  FramesMax = 3
SPECIFICATION Spec
INVARIANTS InBounds LiveInitialised CallStackConsistent
PROPERTIES CallBracket
