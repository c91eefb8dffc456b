CONSTANTS
  Builtins = 3
  StackMax = 3
SPECIFICATION HostsSpec
INVARIANT StackBalanced
