SPECIFICATION Spec
CONSTANTS
  Dialects <- MCDialects
  MaxDiags = 3
  Size = 5
INVARIANTS ContextExact AcceptedWhole FollowsTable SilenceEnds
PROPERTY EndsOrStalls
