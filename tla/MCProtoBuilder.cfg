CONSTANTS
  Lines = {1, 2}
  Constants <- MCConstants
  Children = {1, 2}
  InitialCap = 1
  ConstsMax = 3
  SaxMax = 1
  Offsets = {1, 2}
  AskedPcs <- MCAskedPcs
  MaxCode = 3
  MaxTries = 1
  MaxEntries = 3
  MaxLines = 6
SPECIFICATION LineAtSpec
INVARIANTS WritesFit PoolExact OwnedOnce LineAtExact
CONSTRAINT Bounded
