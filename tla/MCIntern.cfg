CONSTANTS
  a = a
  b = b
  c = c
  d = d
  e = e
  long = long
  Short <- MCShort
  Long <- MCLong
  TypeNames <- MCTypeNames
  HashFns <- MCHashFns
  InitialCap = 2
  MaxObjects = 5
SPECIFICATION Spec
INVARIANTS Findable Balanced
PROPERTY IsPool
