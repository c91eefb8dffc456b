SPECIFICATION Spec
CONSTANTS
  WordBits = 4
  Precision = 2
  FracBits = 1
  ExpMax = 4
  FirstCapacity = 1
  MaxCapacity = 7
  MaxSlots = 5
  Keys <- MCKeys
  MaxPairs = 5
  MaxTargets = 4
  MaxItems = 6
INVARIANTS ArithmeticExact FoldAgrees OrderExact EqualHashAlike
           RangeExact DictExact UnpackExact
