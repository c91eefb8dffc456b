CONSTANTS
  Builtins = 12
  StackMax = 3
SPECIFICATION HostsSpec
INVARIANTS NothingKept ResultTold FailureTold
