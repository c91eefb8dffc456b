SPECIFICATION Spec
CONSTANTS
  Dialects <- MCBroken
  MaxDiags = 3
  Size = 5
PROPERTY Terminates
